---- MODULE Spec2Model ----
(***************************************************************************)
(* SprintReader: the reading-time estimation engine (TimeEstimator), the   *)
(* analytics aggregator (AnalyticsManager) and the pattern analyzer        *)
(* (ReadingPredictor) over the session store (Document and ReadingSession  *)
(* rows), the PDF handler that writes the store (PDFHandler) and the       *)
(* countdown timer (TimerManager).                                         *)
(*                                                                         *)
(* SpecSpeed       the speed estimator (time per page) over histories      *)
(* SpecEstimate    the completion predictor over documents and histories   *)
(* SpecGoal        the goal feasibility evaluator                          *)
(* SpecPortfolio   the portfolio and goal estimates over a failing store   *)
(* SpecConsistency the two consistency scores over lists of numbers        *)
(* SpecAnalytics   daily, weekly, trend and timer-mode statistics          *)
(* SpecCore        the nine operations together, over a failing store      *)
(* SpecHandler     open, navigate, close, interleaved with queries         *)
(* SpecTimer       the timer and its timeouts                              *)
(* In SpecSpeed, SpecEstimate, SpecGoal, SpecAnalytics and SpecHandler the *)
(* store answers every query.  In SpecPortfolio and SpecCore an operation  *)
(* takes the set of its store queries that raise.                          *)
(*                                                                         *)
(* Numbers: the code computes with Python floats.  The model computes with *)
(* exact rationals <<n, d>> in lowest terms (d > 0), so float rounding     *)
(* error is not modelled; round(x, 1) is modelled on the exact value, with *)
(* both neighbours allowed on an exact tie.                                *)
(* A nullable column is <<>> (NULL / None) or <<v>>.                       *)
(***************************************************************************)
EXTENDS Integers, Sequences, FiniteSets, TLC

VARIABLES
    documents,   \* the documents table: id -> [total_pages, current_page]
    sessions,    \* the reading_sessions table, in start_time order (oldest first)
    now,         \* the current day (datetime.now(), at day granularity)
    inserted,    \* number of rows inserted into reading_sessions since Init
    result,      \* the value a call has computed and not yet handed to its
                 \* caller (calls are synchronous, on one thread), or NoResult;
                 \* for the timer, the return value and the signals of the
                 \* latest call or timeout
    handler,     \* the PDFHandler object: its fields
    timer        \* the TimerManager object: its fields and its QTimer

vars == <<documents, sessions, now, inserted, result, handler, timer>>

-----------------------------------------------------------------------------
(* Nullable values *)

None == <<>>
Some(v) == <<v>>
IsNone(o) == o = <<>>
Val(o) == o[1]
\* Python truthiness of an optional number: None and 0 are falsy.
Truthy(o) == o # <<>> /\ o[1] # 0
\* Python's `x or dflt` on an optional number.
OrElse(o, dflt) == IF Truthy(o) THEN o[1] ELSE dflt

-----------------------------------------------------------------------------
(* Exact rationals *)

Abs(x) == IF x < 0 THEN -x ELSE x
Max(a, b) == IF a >= b THEN a ELSE b

RECURSIVE GCD(_, _)
GCD(a, b) == IF b = 0 THEN a ELSE GCD(b, a % b)

\* n / d in lowest terms, d # 0.
Rat(n, d) ==
    LET s == IF d < 0 THEN -1 ELSE 1
        g == GCD(Abs(n), Abs(d))
    IN  <<(s * n) \div g, (s * d) \div g>>

RInt(i) == <<i, 1>>
RMul(a, b) == Rat(a[1] * b[1], a[2] * b[2])
RDiv(a, b) == Rat(a[1] * b[2], a[2] * b[1])
RSub(a, b) == Rat(a[1] * b[2] - b[1] * a[2], a[2] * b[2])
RLt(a, b) == a[1] * b[2] < b[1] * a[2]
RLe(a, b) == a[1] * b[2] <= b[1] * a[2]
RFloor(a) == a[1] \div a[2]

\* round(x, ndigits): the results as integers in units of 1/scale
\* (scale = 10 for ndigits = 1, scale = 1 for a '.0f' format).
RoundTo(x, scale) ==
    LET lo == (x[1] * scale) \div x[2]
    IN  { t \in {lo, lo + 1} : 2 * Abs(x[1] * scale - t * x[2]) <= x[2] }

-----------------------------------------------------------------------------
(* Program constants of TimeEstimator *)

minimum_sample_pages == 3
default_time_per_page == 120
DocumentSampleLimit == 10
OverallSampleLimit == 50
DailyWindowDays == 30
DefaultDailyMinutes == 30

-----------------------------------------------------------------------------
(* The store queries of the speed estimator *)

\* ORDER BY start_time DESC LIMIT n: the n most recent rows, newest first.
MostRecent(s, n) ==
    LET k == IF Len(s) < n THEN Len(s) ELSE n
    IN  [i \in 1..k |-> s[Len(s) + 1 - i]]

\* filter_by(document_id = d)
SessionsOf(d) == SelectSeq(sessions, LAMBDA s : s.document_id = d)

\* The per-document sample: the 10 most recent rows of the document.
DocumentSample(d) == MostRecent(SessionsOf(d), DocumentSampleLimit)

\* The Python-side test of the per-document fold.
CountsInDocumentFold(s) ==
    Truthy(s.duration) /\ Truthy(s.pages_read) /\ Val(s.pages_read) > 0

\* The SQL-side filter of the overall query.
OverallFilter(s) ==
    ~IsNone(s.duration) /\ ~IsNone(s.pages_read) /\ Val(s.pages_read) > 0

OverallSample ==
    MostRecent(SelectSeq(sessions, OverallFilter), OverallSampleLimit)

RECURSIVE SumTime(_)
SumTime(s) ==
    IF s = <<>> THEN 0 ELSE Val(Head(s).duration) * 60 + SumTime(Tail(s))

RECURSIVE SumPages(_)
SumPages(s) ==
    IF s = <<>> THEN 0 ELSE Val(Head(s).pages_read) + SumPages(Tail(s))

\* Mutant of SufficientSample: the threshold compared strictly.
SufficientSample_strict(total_pages) == total_pages > minimum_sample_pages

\* Whether a fold's page total is a sufficient sample.
SufficientSample(total_pages) == total_pages >= minimum_sample_pages

\* _get_user_overall_reading_speed
UserOverallReadingSpeed ==
    LET total_time == SumTime(OverallSample)
        total_pages == SumPages(OverallSample)
    IN  IF SufficientSample(total_pages)
        THEN Rat(total_time, total_pages)
        ELSE RInt(default_time_per_page)

\* Mutant of DocumentSpeedFallback: straight to the fixed default.
DocumentSpeedFallback_default == RInt(default_time_per_page)

\* The fallback of the per-document speed when its sample is insufficient.
DocumentSpeedFallback == UserOverallReadingSpeed

\* _get_document_reading_speed
DocumentReadingSpeed(d) ==
    LET counted == SelectSeq(DocumentSample(d), CountsInDocumentFold)
        total_time == SumTime(counted)
        total_pages == SumPages(counted)
    IN  IF SufficientSample(total_pages)
        THEN Rat(total_time, total_pages)
        ELSE DocumentSpeedFallback

-----------------------------------------------------------------------------
(* The completion predictor *)

\* The rows of the daily-average query: started within the last 30 days,
\* duration not NULL.
InDailyWindow(s) ==
    s.start_time >= now - DailyWindowDays /\ ~IsNone(s.duration)

RECURSIVE SumDuration(_)
SumDuration(s) ==
    IF s = <<>> THEN 0 ELSE Val(Head(s).duration) + SumDuration(Tail(s))

\* func.avg(ReadingSession.duration) ... .scalar(): NULL over no rows.
AverageDuration ==
    LET rows == SelectSeq(sessions, InDailyWindow)
    IN  IF rows = <<>> THEN None ELSE Some(Rat(SumDuration(rows), Len(rows)))

\* _get_daily_reading_average: float(result) if result else 30.0
DailyReadingAverage ==
    LET avg == AverageDuration
    IN  IF IsNone(avg) \/ Val(avg)[1] = 0
        THEN RInt(DefaultDailyMinutes)
        ELSE Val(avg)

\* _calculate_confidence_level: the count is over every row of the document.
ConfidenceSessionCount(d) == Len(SessionsOf(d))

ConfidenceLevel(d) ==
    LET session_count == ConfidenceSessionCount(d)
    IN  IF session_count >= 5 THEN "High"
        ELSE IF session_count >= 2 THEN "Medium"
        ELSE "Low"

\* _format_time_estimate: "<m>m", "<h>h" or "<h>h <m>m".
FormatTimeEstimate(minutes) ==
    IF RLt(minutes, RInt(60))
    THEN <<"m", RFloor(minutes)>>
    ELSE LET hours == RFloor(minutes) \div 60
             remaining_minutes == RFloor(minutes) % 60
         IN  IF remaining_minutes = 0
             THEN <<"h", hours>>
             ELSE <<"h m", hours, remaining_minutes>>

\* _get_reading_recommendation
ReadingRecommendation(estimated_minutes, days_to_complete) ==
    IF RLt(estimated_minutes, RInt(30))
    THEN "Quick read - can finish in one session"
    ELSE IF RLt(estimated_minutes, RInt(120))
    THEN "Medium read - plan 2-3 focused sessions"
    ELSE IF ~IsNone(days_to_complete) /\ Val(days_to_complete)[1] # 0
            /\ RLt(Val(days_to_complete), RInt(7))
    THEN "Intensive reading needed - consider daily sessions"
    ELSE "Long-term reading - pace yourself with regular sessions"

\* Mutant of RemainingPages: the difference, not clamped at 0.
RemainingPages_unclamped(total_pages, current_page) == total_pages - current_page

\* remaining_pages = max(0, total_pages - current_page)
RemainingPages(total_pages, current_page) == Max(0, total_pages - current_page)

\* days_to_complete = estimated_minutes / daily_avg if daily_avg > 0 else None
DaysToComplete(estimated_minutes, daily_avg_minutes) ==
    IF RLt(RInt(0), daily_avg_minutes)
    THEN Some(RDiv(estimated_minutes, daily_avg_minutes))
    ELSE None

\* `if days_to_complete:` then now + timedelta(days = days_to_complete).
\* The date is kept as its offset from now, in days.
CompletionDate(days_to_complete) ==
    IF ~IsNone(days_to_complete) /\ Val(days_to_complete)[1] # 0
    THEN Some(Val(days_to_complete))
    ELSE None

EmptyResult == [empty |-> TRUE]

\* estimate_document_completion, once the document row is found: the
\* possible return values (one, unless a rounded field sits on an exact
\* tie).  Rounded fields are integers in tenths.  Besides the returned
\* dictionary the record keeps the unrounded locals estimated_minutes,
\* avg_time_per_page, progress_percent_exact and daily_avg_minutes.
EstimateForDocument(document_id, document) ==
    LET avg_time_per_page == DocumentReadingSpeed(document_id)
        current_page == OrElse(document.current_page, 1)
        total_pages == OrElse(document.total_pages, 0)
        remaining_pages == RemainingPages(total_pages, current_page)
        estimated_seconds == RMul(RInt(remaining_pages), avg_time_per_page)
        estimated_minutes == RDiv(estimated_seconds, RInt(60))
        progress_percent ==
            IF total_pages > 0 THEN Rat(current_page * 100, total_pages)
            ELSE RInt(0)
        daily_avg_minutes == DailyReadingAverage
        days_to_complete == DaysToComplete(estimated_minutes, daily_avg_minutes)
    IN  { [ empty |-> FALSE,
            document_id |-> document_id,
            total_pages |-> total_pages,
            current_page |-> current_page,
            remaining_pages |-> remaining_pages,
            progress_percent |-> pp,
            avg_time_per_page_seconds |-> at,
            estimated_time_remaining_minutes |-> em,
            estimated_time_remaining_formatted |->
                FormatTimeEstimate(estimated_minutes),
            estimated_completion_date |-> CompletionDate(days_to_complete),
            confidence_level |-> ConfidenceLevel(document_id),
            recommendation |->
                ReadingRecommendation(estimated_minutes, days_to_complete),
            avg_time_per_page |-> avg_time_per_page,
            estimated_minutes |-> estimated_minutes,
            progress_percent_exact |-> progress_percent,
            daily_avg_minutes |-> daily_avg_minutes ] :
          pp \in RoundTo(progress_percent, 10),
          at \in RoundTo(avg_time_per_page, 10),
          em \in RoundTo(estimated_minutes, 10) }

EstimateDocumentCompletion(document_id) ==
    IF document_id \notin DOMAIN documents
    THEN {EmptyResult}
    ELSE EstimateForDocument(document_id, documents[document_id])

-----------------------------------------------------------------------------
(* The goal feasibility evaluator *)

\* Resolution of target_date - now: ticks per day.
TicksPerDay == 2

\* `if document_ids:` selects by id; None and the empty list select all.
GoalDocuments(document_ids) ==
    IF ~IsNone(document_ids) /\ Val(document_ids) # {}
    THEN Val(document_ids) \cap DOMAIN documents
    ELSE DOMAIN documents

\* estimate.get('estimated_time_remaining_minutes', 0), in tenths.
EstimatedTenths(d) ==
    { IF e.empty THEN 0 ELSE e.estimated_time_remaining_minutes :
        e \in EstimateDocumentCompletion(d) }

\* The possible totals of the loop over the selected documents, in tenths.
RECURSIVE TotalEstimatedTenths(_)
TotalEstimatedTenths(S) ==
    IF S = {} THEN {0}
    ELSE LET d == CHOOSE x \in S : TRUE
         IN  { a + b : a \in EstimatedTenths(d),
                       b \in TotalEstimatedTenths(S \ {d}) }

\* (target_date - datetime.now()).days: timedelta.days is the floor.
DaysAvailable(offset) == offset \div TicksPerDay

\* Mutant of PastOrToday: today is let through.
PastOrToday_strict(days_available) == days_available < 0

\* The short-circuit test on days_available.
PastOrToday(days_available) == days_available <= 0

\* Mutant of Feasible: the comparison made strict.
Feasible_strict(required_daily_minutes, daily_avg_minutes) ==
    RLt(required_daily_minutes, RMul(daily_avg_minutes, Rat(3, 2)))

\* feasible = required_daily_minutes <= daily_avg_minutes * 1.5
Feasible(required_daily_minutes, daily_avg_minutes) ==
    RLe(required_daily_minutes, RMul(daily_avg_minutes, Rat(3, 2)))

\* _get_goal_recommendation; the percentage is formatted with '.0f'.
GoalRecommendation(feasible, required_daily, current_average) ==
    IF feasible
    THEN IF RLe(required_daily, current_average)
         THEN {<<"Goal is easily achievable at your current pace">>}
         ELSE { <<"Goal is achievable with % increase in daily reading", pct>> :
                  pct \in RoundTo(RMul(RSub(RDiv(required_daily, current_average),
                                            RInt(1)), RInt(100)), 1) }
    ELSE IF RLt(RMul(current_average, RInt(2)), required_daily)
         THEN {<<"Goal requires significant increase in reading time - consider extending deadline">>}
         ELSE {<<"Goal is challenging but possible with focused effort">>}

\* estimate_goal_feasibility from line 125 on, for the possible totals of
\* its loop: the possible return values.  target_date is given by its offset
\* from now, in ticks.  Besides the returned dictionary the record keeps the
\* unrounded locals required_daily, daily_avg and total_tenths.
GoalFeasibilityOfTotals(offset, totals) ==
    LET days_available == DaysAvailable(offset)
        daily_avg_minutes == DailyReadingAverage
    IN  UNION {
        IF PastOrToday(days_available)
        THEN {[ empty |-> FALSE,
                short |-> TRUE,
                feasible |-> FALSE,
                reason |-> "Target date is in the past or today",
                required_daily_minutes |-> 0 ]}
        ELSE IF days_available = 0
        THEN {EmptyResult}      \* ZeroDivisionError, caught: return {}
        ELSE
        LET total_estimated_minutes == Rat(total, 10)
            required_daily_minutes ==
                RDiv(total_estimated_minutes, RInt(days_available))
            feasible == Feasible(required_daily_minutes, daily_avg_minutes)
            ratio == IF RLt(RInt(0), daily_avg_minutes)
                     THEN { Some(r) :
                              r \in RoundTo(RDiv(required_daily_minutes,
                                                 daily_avg_minutes), 10) }
                     ELSE {None}
        IN  { [ empty |-> FALSE,
                short |-> FALSE,
                target_offset |-> offset,
                days_available |-> days_available,
                total_estimated_minutes |-> total,
                total_estimated_formatted |->
                    FormatTimeEstimate(total_estimated_minutes),
                required_daily_minutes |-> rq,
                current_daily_average |-> av,
                feasible |-> feasible,
                difficulty_ratio |-> dr,
                recommendation |-> rec,
                required_daily |-> required_daily_minutes,
                daily_avg |-> daily_avg_minutes,
                total_tenths |-> total ] :
              rq \in RoundTo(required_daily_minutes, 10),
              av \in RoundTo(daily_avg_minutes, 10),
              dr \in ratio,
              rec \in GoalRecommendation(feasible, required_daily_minutes,
                                         daily_avg_minutes) }
        : total \in totals }

\* estimate_goal_feasibility(target_date, document_ids)
EstimateGoalFeasibility(offset, document_ids) ==
    GoalFeasibilityOfTotals(offset,
                            TotalEstimatedTenths(GoalDocuments(document_ids)))

-----------------------------------------------------------------------------
(* Store contents and inputs *)

MaxInserted == 1
MaxTicks == 2

DocIds == {1, 2}
\* Ids a caller may ask about; the last one is never in the store.
QueryIds == DocIds \cup {3}

\* <<duration in minutes, pages_read>> of a reading_sessions row.
SessionShapes ==
    { <<Some(20), Some(10)>>, <<Some(1), Some(3)>>, <<Some(0), Some(3)>>,
      <<Some(20), Some(0)>>, <<Some(20), Some(1)>>,
      <<None, Some(3)>>, <<Some(20), None>> }

InsertedShapes == { <<Some(20), Some(0)>>, <<Some(20), Some(10)>> }

Row(d, shape, day) ==
    [document_id |-> d, duration |-> shape[1], pages_read |-> shape[2],
     start_time |-> day]

\* n equal rows.
Run(d, shape, day, n) == [i \in 1..n |-> Row(d, shape, day)]

\* A store history: an older run of equal rows, then a newer run.
Histories(docs, shapes, older, newer) ==
    { Run(d1, s1, 0, n1) \o Run(d2, s2, 1, n2) :
        d1 \in docs, s1 \in shapes, n1 \in older,
        d2 \in docs, s2 \in shapes, n2 \in newer }

\* <<total_pages, current_page>> of a documents row.
DocumentShapes ==
    { <<Some(200), Some(1)>>, <<Some(100), Some(50)>>, <<Some(3), Some(1)>>,
      <<Some(3), Some(3)>>, <<Some(3), Some(5)>>, <<Some(0), Some(1)>>,
      <<None, None>> }

DocumentRow(shape) == [total_pages |-> shape[1], current_page |-> shape[2]]

NoResult == [op |-> "none"]

\* PDFHandler.__init__: no document is open.  page_times is held as the set
\* of its keys (0-based pages); the seconds it maps them to are not modelled.
NewHandler ==
    [current_doc |-> None, current_page |-> 0, total_pages |-> 0,
     document_id |-> None, session_start_time |-> None,
     page_start_time |-> None, page_times |-> {}]

\* The timer settings, in seconds.
work_duration == 25 * 60
sprint_duration == 5 * 60
break_duration == 5 * 60
long_break_duration == 15 * 60

\* TimerManager.__init__.  active is the QTimer's isActive(); ticks counts
\* the timeouts handled in the countdown in progress (0 when there is none).
NewTimer ==
    [current_mode |-> "regular", state |-> "stopped", remaining_time |-> 0,
     session_count |-> 0, is_break_time |-> FALSE, total_duration |-> 0,
     active |-> FALSE, ticks |-> 0]

-----------------------------------------------------------------------------
(* Actions *)

\* A row is inserted into reading_sessions, as PDFHandler._end_session does
\* when a session closes; its start_time is the current day.
InsertSession(d, shape) ==
    /\ result = NoResult
    /\ inserted < MaxInserted
    /\ sessions' = Append(sessions, Row(d, shape, now))
    /\ inserted' = inserted + 1
    /\ UNCHANGED <<documents, now, result, handler, timer>>

\* A day passes.
Tick ==
    /\ result = NoResult
    /\ now < DailyWindowDays + MaxTicks
    /\ now' = now + 1
    /\ UNCHANGED <<documents, sessions, inserted, result, handler, timer>>

\* time_per_page(document_id): _get_document_reading_speed
TimePerPage(d) ==
    /\ result = NoResult
    /\ result' = [op |-> "time_per_page", document_id |-> d,
                  value |-> DocumentReadingSpeed(d)]
    /\ UNCHANGED <<documents, sessions, now, inserted, handler, timer>>

\* estimate_completion(document_id): estimate_document_completion
EstimateCompletion(d) ==
    /\ result = NoResult
    /\ \E r \in EstimateDocumentCompletion(d) :
          result' = [op |-> "estimate_completion", document_id |-> d, ret |-> r]
    /\ UNCHANGED <<documents, sessions, now, inserted, handler, timer>>

\* evaluate_goal(target_date, document_ids): estimate_goal_feasibility
EvaluateGoal(offset, document_ids) ==
    /\ result = NoResult
    /\ \E r \in EstimateGoalFeasibility(offset, document_ids) :
          result' = [op |-> "evaluate_goal", offset |-> offset,
                     document_ids |-> document_ids, ret |-> r]
    /\ UNCHANGED <<documents, sessions, now, inserted, handler, timer>>

\* The query returns: its caller has the value.
ReturnToCaller ==
    /\ result # NoResult
    /\ result' = NoResult
    /\ UNCHANGED <<documents, sessions, now, inserted, handler, timer>>

-----------------------------------------------------------------------------
(* Specifications *)

\* The speed estimator over rich session histories.
InitSpeed ==
    /\ documents = [d \in DocIds |-> DocumentRow(<<Some(100), Some(50)>>)]
    /\ sessions \in Histories(DocIds, SessionShapes,
                               {0, 1, 2, OverallSampleLimit},
                               {0, 1, 3, DocumentSampleLimit - 1,
                                DocumentSampleLimit})
    /\ now = DailyWindowDays
    /\ inserted = 0
    /\ result = NoResult
    /\ handler = NewHandler
    /\ timer = NewTimer

NextSpeed ==
    \/ \E d \in DocIds, shape \in InsertedShapes : InsertSession(d, shape)
    \/ \E d \in QueryIds : TimePerPage(d)
    \/ ReturnToCaller

SpecSpeed == InitSpeed /\ [][NextSpeed]_vars

\* The completion predictor over varied documents.
InitEstimate ==
    /\ \E s1 \in DocumentShapes, D \in {{1}, {1, 2}} :
          documents = [d \in D |->
                         IF d = 1 THEN DocumentRow(s1)
                         ELSE DocumentRow(<<Some(100), Some(50)>>)]
    /\ sessions \in Histories(DocIds, SessionShapes, {0, 1}, {0, 1, 4})
    /\ now = DailyWindowDays
    /\ inserted = 0
    /\ result = NoResult
    /\ handler = NewHandler
    /\ timer = NewTimer

NextEstimate ==
    \/ Tick
    \/ \E d \in QueryIds : EstimateCompletion(d)
    \/ ReturnToCaller

SpecEstimate == InitEstimate /\ [][NextEstimate]_vars

\* The goal evaluator over documents and histories around its thresholds.
GoalDocumentShapes ==
    { <<Some(100), Some(50)>>, <<Some(50), Some(5)>>, <<Some(3), Some(3)>> }

GoalSessionShapes ==
    { <<Some(20), Some(10)>>, <<Some(1), Some(3)>>, <<Some(0), Some(3)>> }

InitGoal ==
    /\ \E s1 \in GoalDocumentShapes, D \in {{1}, {1, 2}} :
          documents = [d \in D |->
                         IF d = 1 THEN DocumentRow(s1)
                         ELSE DocumentRow(<<Some(100), Some(50)>>)]
    /\ sessions \in Histories({1}, GoalSessionShapes, {0, 1}, {0, 1, 4})
    /\ now = DailyWindowDays
    /\ inserted = 0
    /\ result = NoResult
    /\ handler = NewHandler
    /\ timer = NewTimer

\* target_date - now, in ticks: from yesterday to five days ahead.
GoalOffsets ==
    { -1, 0, 1, TicksPerDay, 2 * TicksPerDay, 3 * TicksPerDay + 1,
      4 * TicksPerDay, 5 * TicksPerDay }

GoalDocumentIds == { None, Some({}), Some({1}), Some({2, 3}) }

NextGoal ==
    \/ Tick
    \/ \E offset \in GoalOffsets, ids \in GoalDocumentIds :
          EvaluateGoal(offset, ids)
    \/ ReturnToCaller

SpecGoal == InitGoal /\ [][NextGoal]_vars

-----------------------------------------------------------------------------
(* Properties of the speed estimator (SpecSpeed) *)

\* A session with a duration and pages_read > 0.
HasDurationAndPages(s) ==
    s.duration # None /\ s.pages_read # None /\ s.pages_read[1] > 0

TimePerPageReturned == result.op = "time_per_page"

\* C1: a document none of whose sessions has a duration and pages_read > 0
\* gets the overall estimator's value as its time per page, and with no such
\* session in the whole store the overall estimator gives exactly 120.
C1_FallbackChain ==
    TimePerPageReturned =>
        /\ SelectSeq(SessionsOf(result.document_id), HasDurationAndPages) = <<>>
              => result.value = UserOverallReadingSpeed
        /\ SelectSeq(sessions, HasDurationAndPages) = <<>>
              => /\ UserOverallReadingSpeed = <<120, 1>>
                 /\ result.value = <<120, 1>>

\* C1 witness: the document has sessions, none of them qualifying, and the
\* value returned comes from other documents' sessions.
C1_Witness ==
    /\ TimePerPageReturned
    /\ SessionsOf(result.document_id) # <<>>
    /\ SelectSeq(SessionsOf(result.document_id), HasDurationAndPages) = <<>>
    /\ SelectSeq(sessions, HasDurationAndPages) # <<>>
    /\ result.value # <<120, 1>>

\* C2: time_per_page is strictly positive for every store whose sessions
\* have non-negative duration and pages_read.
C2_PositiveTimePerPage ==
    TimePerPageReturned => result.value[1] > 0 /\ result.value[2] > 0

\* C3: inserting a session with pages_read = 0 changes the time per page of
\* no document.
C3_ZeroPageSessionChangesNothing ==
    [][ ( /\ Len(sessions') = Len(sessions) + 1
          /\ sessions'[Len(sessions')].pages_read = Some(0) )
        => \A d \in QueryIds :
             DocumentReadingSpeed(d)' = DocumentReadingSpeed(d) ]_vars

\* The sessions of the document's sample (its 10 most recent rows) that the
\* fold counts: duration present and not zero, pages_read > 0.
C4_Counted(d) ==
    SelectSeq(DocumentSample(d),
              LAMBDA s : /\ s.duration # None /\ s.duration[1] # 0
                         /\ s.pages_read # None /\ s.pages_read[1] > 0)

\* The same rows drawn from a store holding the document's sessions only.
C4_CountedAlone(d) ==
    LET own == SessionsOf(d)
        k == IF Len(own) < 10 THEN Len(own) ELSE 10
    IN  SelectSeq([i \in 1..k |-> own[Len(own) + 1 - i]],
                  LAMBDA s : /\ s.duration # None /\ s.duration[1] # 0
                             /\ s.pages_read # None /\ s.pages_read[1] > 0)

-----------------------------------------------------------------------------
(* Properties of the completion predictor (SpecEstimate) *)

\* estimate_completion has returned for a document of the store.
EstimateReturned ==
    /\ result.op = "estimate_completion"
    /\ result.document_id \in DOMAIN documents

\* The document row with another current_page.
AtPage(d, p) == [documents[d] EXCEPT !.current_page = Some(p)]

\* C5: with the session history fixed, a larger current_page of the document
\* (within 1..total_pages) gives strictly fewer remaining pages and strictly
\* fewer estimated minutes.
C5_Monotonicity ==
    EstimateReturned =>
        LET d == result.document_id
            r == result.ret
        IN  r.empty = FALSE /\ r.current_page \in 1..r.total_pages =>
              \A p \in 1..r.total_pages :
                \A q \in EstimateForDocument(d, AtPage(d, p)) :
                  /\ p > r.current_page =>
                        /\ q.remaining_pages < r.remaining_pages
                        /\ RLt(q.estimated_minutes, r.estimated_minutes)
                  /\ p < r.current_page =>
                        /\ q.remaining_pages > r.remaining_pages
                        /\ RLt(r.estimated_minutes, q.estimated_minutes)

\* C6: for a document of the store, remaining_pages = max(0, total_pages -
\* current_page) >= 0, estimated_minutes = remaining_pages * time_per_page
\* / 60 (reported rounded to one decimal), progress_percent = current_page
\* / total_pages * 100 and 0 when total_pages is 0 (reported rounded to one
\* decimal); with no session anywhere, 200 pages and current page 1:
\* 199 pages, 398.0 minutes, confidence Low.
C6_EstimateFields ==
    EstimateReturned =>
        LET d == result.document_id
            r == result.ret
            tp == IF documents[d].total_pages \in {None, Some(0)} THEN 0
                  ELSE documents[d].total_pages[1]
            cp == IF documents[d].current_page \in {None, Some(0)} THEN 1
                  ELSE documents[d].current_page[1]
            speed == DocumentReadingSpeed(d)
            minutes == r.estimated_minutes
        IN  /\ r.empty = FALSE
            /\ r.total_pages = tp /\ r.current_page = cp
            /\ r.remaining_pages = (IF tp - cp > 0 THEN tp - cp ELSE 0)
            /\ r.remaining_pages >= 0
            /\ minutes[1] * 60 * speed[2] = r.remaining_pages * speed[1] * minutes[2]
            /\ 2 * Abs(minutes[1] * 10 - r.estimated_time_remaining_minutes * minutes[2])
                  <= minutes[2]
            /\ tp = 0 => r.progress_percent_exact = <<0, 1>> /\ r.progress_percent = 0
            /\ tp > 0 => /\ r.progress_percent_exact[1] * tp
                              = cp * 100 * r.progress_percent_exact[2]
                         /\ 2 * Abs(cp * 1000 - r.progress_percent * tp) <= tp
            /\ (sessions = <<>> /\ tp = 200 /\ cp = 1) =>
                  /\ r.remaining_pages = 199
                  /\ minutes = <<398, 1>>
                  /\ r.estimated_time_remaining_minutes = 3980
                  /\ r.confidence_level = "Low"

\* C6 witness: the scenario (no session anywhere, 200 pages, current page 1).
C6_Witness ==
    /\ EstimateReturned
    /\ sessions = <<>>
    /\ documents[result.document_id] = DocumentRow(<<Some(200), Some(1)>>)
    /\ result.ret.remaining_pages = 199

\* The sample behind a document's estimate: its 10 most recent sessions
\* with a duration and pages_read > 0.
C7_Sample(d) ==
    LET q == SelectSeq(SessionsOf(d), HasDurationAndPages)
    IN  IF Len(q) <= 10 THEN q ELSE SubSeq(q, Len(q) - 9, Len(q))

\* C7: the confidence label is Low for 0 or 1 sessions, Medium for 2 to 4,
\* High for 5 or more, counting the sessions of the document's sample
\* behind the estimate.
C7_ConfidenceBySample ==
    EstimateReturned =>
        LET n == Len(C7_Sample(result.document_id))
        IN  /\ result.ret.empty = FALSE
            /\ result.ret.confidence_level =
                  (IF n >= 5 THEN "High" ELSE IF n >= 2 THEN "Medium" ELSE "Low")

\* C8: estimated_completion_date is null exactly when daily_average_minutes
\* <= 0, and otherwise is now + estimated_minutes / daily_average_minutes
\* days (now itself for a document with zero remaining pages).
C8_CompletionDate ==
    EstimateReturned =>
        LET r == result.ret
            avg == DailyReadingAverage
        IN  /\ r.empty = FALSE
            /\ (r.estimated_completion_date = None) <=> (avg[1] <= 0)
            /\ avg[1] > 0 =>
                  /\ r.estimated_completion_date # None
                  /\ r.estimated_completion_date[1][1] * avg[1] * r.estimated_minutes[2]
                       = r.estimated_minutes[1] * avg[2] * r.estimated_completion_date[1][2]

-----------------------------------------------------------------------------
(* Properties of the goal evaluator (SpecGoal) *)

GoalReturned == result.op = "evaluate_goal"

\* C9: a target date less than one whole day after now (yesterday, today)
\* gives feasible = False with the past-or-today reason, whatever the
\* documents, and no required daily rate is computed.
C9_PastOrTodayInfeasible ==
    (GoalReturned /\ result.offset < TicksPerDay) =>
        /\ result.ret.empty = FALSE
        /\ result.ret.feasible = FALSE
        /\ result.ret.reason = "Target date is in the past or today"
        /\ result.ret.required_daily_minutes = 0
        /\ "required_daily" \notin DOMAIN result.ret

\* C9 witness: a target later today, with documents left to read.
C9_Witness ==
    /\ GoalReturned
    /\ result.offset > 0 /\ result.offset < TicksPerDay
    /\ result.ret.empty = FALSE /\ result.ret.feasible = FALSE
    /\ \E d \in DOMAIN documents :
          \E e \in EstimateDocumentCompletion(d) : e.remaining_pages > 0

\* C10: with days_available > 0, required_daily_minutes = total_minutes /
\* days_available; feasible exactly when required <= 1.5 * daily average;
\* difficulty_ratio = required / average (reported rounded to one decimal),
\* null when the average is zero; 'easily achievable' only when required <=
\* average; extending the deadline advised only when required > 2 * average.
C10_Feasibility ==
    (GoalReturned /\ result.offset >= TicksPerDay) =>
        LET r == result.ret
            days == CHOOSE n \in 1..result.offset :
                      n * TicksPerDay <= result.offset
                      /\ result.offset < (n + 1) * TicksPerDay
        IN  /\ r.empty = FALSE /\ r.short = FALSE
            /\ r.days_available = days
            /\ r.daily_avg = DailyReadingAverage
            /\ r.required_daily[1] * days * 10 = r.total_tenths * r.required_daily[2]
            /\ 2 * Abs(r.required_daily[1] * 10
                        - r.required_daily_minutes * r.required_daily[2])
                  <= r.required_daily[2]
            /\ r.feasible <=>
                  (2 * r.required_daily[1] * r.daily_avg[2]
                     <= 3 * r.daily_avg[1] * r.required_daily[2])
            /\ r.daily_avg[1] = 0 => r.difficulty_ratio = None
            /\ r.daily_avg[1] > 0 =>
                  /\ r.difficulty_ratio # None
                  /\ 2 * Abs(r.required_daily[1] * r.daily_avg[2] * 10
                              - r.difficulty_ratio[1] * r.required_daily[2] * r.daily_avg[1])
                        <= r.required_daily[2] * r.daily_avg[1]
            /\ r.recommendation[1] = "Goal is easily achievable at your current pace"
                  => RLe(r.required_daily, r.daily_avg)
            /\ r.recommendation[1] = "Goal requires significant increase in reading time - consider extending deadline"
                  => 2 * r.daily_avg[1] * r.required_daily[2]
                       < r.required_daily[1] * r.daily_avg[2]

\* C10 witness: a feasible goal that needs more than the current average.
C10_Witness ==
    /\ GoalReturned /\ result.offset >= TicksPerDay
    /\ result.ret.empty = FALSE /\ result.ret.short = FALSE
    /\ result.ret.feasible
    /\ RLt(result.ret.daily_avg, result.ret.required_daily)

\* C11: whenever document_ids is given (the empty list and a list naming no
\* document of the store included) the total is the sum of the estimated
\* minutes of exactly the named documents, 0 when none of them exists; the
\* total runs over all documents only when document_ids is not given.
C11_SumsNamedDocuments ==
    (GoalReturned /\ result.offset >= TicksPerDay) =>
        LET named == IF result.document_ids = None
                     THEN DOMAIN documents
                     ELSE result.document_ids[1] \cap DOMAIN documents
        IN  /\ result.ret.empty = FALSE
            /\ result.ret.total_tenths \in TotalEstimatedTenths(named)
            /\ named = {} => result.ret.total_estimated_minutes = 0

-----------------------------------------------------------------------------
(* The estimator when a store query fails, and estimate_all_documents      *)
(*                                                                         *)
(* A failing query raises; `failed` is the set of queries that fail during *)
(* one call: <<"document", id>> the lookup of a document (line 22),        *)
(* <<"documents", 0>> the listing of the documents (lines 71, 116, 118).   *)
(* The queries of the speed estimator, the daily average and the           *)
(* confidence level have handlers of their own that return a default;      *)
(* their failure is not modelled.                                          *)

\* estimate_document_completion: the lookup raising is caught at line 64.
EstimateDocumentCompletionUnder(failed, document_id) ==
    IF <<"document", document_id>> \in failed
    THEN {EmptyResult}
    ELSE EstimateDocumentCompletion(document_id)

\* query(Document).all(): the rows in primary-key order.
RECURSIVE SortedIds(_)
SortedIds(S) ==
    IF S = {} THEN <<>>
    ELSE LET m == CHOOSE x \in S : \A y \in S : x <= y
         IN  <<m>> \o SortedIds(S \ {m})

\* Mutant of KeepEstimate: an empty estimate is kept as well.
KeepEstimate_all(estimate) == TRUE

\* `if estimate:` a dictionary is truthy unless empty.
KeepEstimate(estimate) == ~estimate.empty

\* The loop of estimate_all_documents_completion (lines 77-85) over the
\* listed ids: the possible <<document_estimates, total, completed>>.
RECURSIVE AllDocumentsLoop(_, _)
AllDocumentsLoop(failed, ids) ==
    IF ids = <<>>
    THEN {[document_estimates |-> <<>>, total |-> 0, completed |-> 0]}
    ELSE { IF KeepEstimate(e)
           THEN [document_estimates |-> <<e>> \o rest.document_estimates,
                 total |-> (IF e.empty THEN 0
                            ELSE e.estimated_time_remaining_minutes)
                           + rest.total,
                 completed |-> rest.completed
                     + (IF (IF e.empty THEN 0 ELSE e.remaining_pages) = 0
                        THEN 1 ELSE 0)]
           ELSE rest :
           e \in EstimateDocumentCompletionUnder(failed, Head(ids)),
           rest \in AllDocumentsLoop(failed, Tail(ids)) }

\* _get_overall_recommendation
OverallRecommendation(total_minutes, days_to_complete) ==
    IF RLt(total_minutes, RInt(60))
    THEN "Light reading load - easily manageable"
    ELSE IF RLt(total_minutes, RInt(300))
    THEN "Moderate reading load - plan regular sessions"
    ELSE IF ~IsNone(days_to_complete) /\ Val(days_to_complete)[1] # 0
            /\ RLt(Val(days_to_complete), RInt(14))
    THEN "Heavy reading load - consider intensive study schedule"
    ELSE "Substantial reading ahead - create structured study plan"

\* estimate_all_documents_completion: the possible return values.
EstimateAllDocumentsCompletion(failed) ==
    IF <<"documents", 0>> \in failed
    THEN {EmptyResult}
    ELSE
    LET ids == SortedIds(DOMAIN documents)
        daily_avg_minutes == DailyReadingAverage
        total_documents == Len(ids)
    IN  UNION {
        LET total_estimated_minutes == Rat(l.total, 10)
            days_to_complete_all ==
                DaysToComplete(total_estimated_minutes, daily_avg_minutes)
            completion_percentage ==
                IF total_documents > 0
                THEN Rat(l.completed * 100, total_documents)
                ELSE RInt(0)
            days == IF ~IsNone(days_to_complete_all)
                       /\ Val(days_to_complete_all)[1] # 0
                    THEN { Some(x) : x \in RoundTo(Val(days_to_complete_all), 10) }
                    ELSE {None}
        IN  { [ empty |-> FALSE,
                total_documents |-> total_documents,
                completed_documents |-> l.completed,
                remaining_documents |-> total_documents - l.completed,
                completion_percentage |-> cp,
                total_estimated_time_minutes |-> l.total,
                total_estimated_time_formatted |->
                    FormatTimeEstimate(total_estimated_minutes),
                daily_average_reading_minutes |-> da,
                estimated_days_to_complete |-> ed,
                document_estimates |-> l.document_estimates,
                overall_recommendation |->
                    OverallRecommendation(total_estimated_minutes,
                                          days_to_complete_all) ] :
              cp \in RoundTo(completion_percentage, 10),
              da \in RoundTo(daily_avg_minutes, 10),
              ed \in days }
        : l \in AllDocumentsLoop(failed, ids) }

\* estimate.get('estimated_time_remaining_minutes', 0), in tenths.
EstimatedTenthsUnder(failed, d) ==
    { IF e.empty THEN 0 ELSE e.estimated_time_remaining_minutes :
        e \in EstimateDocumentCompletionUnder(failed, d) }

\* The possible totals of the loop of estimate_goal_feasibility, in tenths.
RECURSIVE TotalEstimatedTenthsUnder(_, _)
TotalEstimatedTenthsUnder(failed, S) ==
    IF S = {} THEN {0}
    ELSE LET d == CHOOSE x \in S : TRUE
         IN  { a + b : a \in EstimatedTenthsUnder(failed, d),
                       b \in TotalEstimatedTenthsUnder(failed, S \ {d}) }

\* estimate_goal_feasibility: the listing raising is caught at line 153.
EstimateGoalFeasibilityUnder(failed, offset, document_ids) ==
    IF <<"documents", 0>> \in failed
    THEN {EmptyResult}
    ELSE GoalFeasibilityOfTotals(offset,
             TotalEstimatedTenthsUnder(failed, GoalDocuments(document_ids)))

\* The sets of queries that fail during one call of the estimator.
PortfolioFailures ==
    SUBSET { <<"document", 1>>, <<"document", 2>>, <<"documents", 0>> }

\* estimate_completion(document_id) while the queries of `failed` fail.
EstimateCompletionUnder(failed, d) ==
    /\ result = NoResult
    /\ \E r \in EstimateDocumentCompletionUnder(failed, d) :
          result' = [op |-> "estimate_completion", document_id |-> d,
                     failed |-> failed, ret |-> r]
    /\ UNCHANGED <<documents, sessions, now, inserted, handler, timer>>

\* estimate_all_documents() while the queries of `failed` fail.
EstimateAllDocuments(failed) ==
    /\ result = NoResult
    /\ \E r \in EstimateAllDocumentsCompletion(failed) :
          result' = [op |-> "estimate_all_documents", failed |-> failed,
                     ret |-> r]
    /\ UNCHANGED <<documents, sessions, now, inserted, handler, timer>>

\* evaluate_goal(target_date, document_ids) while the queries of `failed`
\* fail.
EvaluateGoalUnder(failed, offset, document_ids) ==
    /\ result = NoResult
    /\ \E r \in EstimateGoalFeasibilityUnder(failed, offset, document_ids) :
          result' = [op |-> "evaluate_goal", offset |-> offset,
                     document_ids |-> document_ids, failed |-> failed,
                     ret |-> r]
    /\ UNCHANGED <<documents, sessions, now, inserted, handler, timer>>

\* The estimator's three public queries over a store that may fail.
InitPortfolio ==
    /\ \E s1 \in GoalDocumentShapes, D \in {{1}, {1, 2}} :
          documents = [d \in D |->
                         IF d = 1 THEN DocumentRow(s1)
                         ELSE DocumentRow(<<Some(100), Some(50)>>)]
    /\ sessions \in Histories({1}, GoalSessionShapes, {0, 1}, {0, 4})
    /\ now = DailyWindowDays
    /\ inserted = 0
    /\ result = NoResult
    /\ handler = NewHandler
    /\ timer = NewTimer

PortfolioOffsets == { 0, 2 * TicksPerDay }

PortfolioDocumentIds == { None, Some({1, 2}), Some({2, 3}) }

NextPortfolio ==
    \/ \E failed \in PortfolioFailures, d \in QueryIds :
          EstimateCompletionUnder(failed, d)
    \/ \E failed \in PortfolioFailures : EstimateAllDocuments(failed)
    \/ \E failed \in PortfolioFailures, offset \in PortfolioOffsets,
          ids \in PortfolioDocumentIds :
          EvaluateGoalUnder(failed, offset, ids)
    \/ ReturnToCaller

SpecPortfolio == InitPortfolio /\ [][NextPortfolio]_vars

-----------------------------------------------------------------------------
(* Properties of the estimator over a failing store (SpecPortfolio) *)

\* The documents of S whose lookup answers.
C12_Answering(S, failed) ==
    { d \in S \cap DOMAIN documents : <<"document", d>> \notin failed }

RECURSIVE C12_SumOfEstimates(_)
C12_SumOfEstimates(es) ==
    IF es = <<>> THEN 0
    ELSE Head(es).estimated_time_remaining_minutes
         + C12_SumOfEstimates(Tail(es))

\* C12: estimate_completion for an id absent from the store returns the
\* empty result (no exception, no zero-valued estimate); estimate_all_documents
\* leaves every empty estimate out of document_estimates and of the total;
\* evaluate_goal adds 0 minutes for it.
C12_EmptyEstimate ==
    /\ (result.op = "estimate_completion"
        /\ result.document_id \notin DOMAIN documents)
          => result.ret = [empty |-> TRUE]
    /\ (result.op = "estimate_all_documents" /\ ~result.ret.empty) =>
          LET kept == result.ret.document_estimates
              answering == C12_Answering(DOMAIN documents, result.failed)
          IN  /\ \A i \in DOMAIN kept : ~kept[i].empty
              /\ { kept[i].document_id : i \in DOMAIN kept } = answering
              /\ Len(kept) = Cardinality(answering)
              /\ result.ret.total_estimated_time_minutes
                    = C12_SumOfEstimates(kept)
              /\ result.ret.total_documents = Cardinality(DOMAIN documents)
    /\ (result.op = "evaluate_goal" /\ ~result.ret.empty /\ ~result.ret.short) =>
          LET named == IF result.document_ids \in {None, Some({})}
                       THEN DOMAIN documents
                       ELSE result.document_ids[1]
          IN  result.ret.total_tenths
                \in TotalEstimatedTenths(C12_Answering(named, result.failed))

\* C12 witness: estimate_all_documents over two documents with pages left,
\* the estimate of one of them empty and left out, the other kept.
C12_Witness ==
    /\ result.op = "estimate_all_documents" /\ ~result.ret.empty
    /\ result.ret.total_documents = 2
    /\ Len(result.ret.document_estimates) = 1
    /\ result.ret.document_estimates[1].document_id = 2
    /\ result.ret.total_estimated_time_minutes > 0
    /\ \E e \in EstimateDocumentCompletion(1) : e.remaining_pages > 0

-----------------------------------------------------------------------------
(* The consistency scores (AnalyticsManager and ReadingPredictor)          *)
(*                                                                         *)
(* Both are max(0, 100 - std_dev / mean * 100) rounded to one decimal.     *)
(* With n values of sum S and sum of squares Q, (std_dev / mean)^2 is the  *)
(* rational a / b computed below; the rounded score, in tenths, is found   *)
(* from floor(2000 * sqrt(a / b)) by exact integer comparisons.            *)

RECURSIVE SumOf(_)
SumOf(xs) == IF xs = <<>> THEN 0 ELSE Head(xs) + SumOf(Tail(xs))

RECURSIVE SumOfSquares(_)
SumOfSquares(xs) ==
    IF xs = <<>> THEN 0 ELSE Head(xs) * Head(xs) + SumOfSquares(Tail(xs))

\* The sign of k * k * b - 4000000 * a (0 <= k <= 2000), evaluated in
\* 2000s so that no intermediate value leaves 32 bits.
ScaledSquareCompare(k, a, b) ==
    LET q1 == (k * k) \div 2000
        r1 == (k * k) % 2000
        q2 == (r1 * b) \div 2000
        r2 == (r1 * b) % 2000
        lhs == q1 * b + q2
    IN  IF lhs < 2000 * a THEN -1
        ELSE IF lhs > 2000 * a THEN 1
        ELSE IF r2 = 0 THEN 0 ELSE 1

\* The largest k in lo..hi with k * k * b <= 4000000 * a, i.e.
\* floor(2000 * sqrt(a / b)), given that lo satisfies it.
RECURSIVE FloorScaledRoot(_, _, _, _)
FloorScaledRoot(a, b, lo, hi) ==
    IF lo = hi THEN lo
    ELSE LET mid == (lo + hi + 1) \div 2
         IN  IF ScaledSquareCompare(mid, a, b) <= 0
             THEN FloorScaledRoot(a, b, mid, hi)
             ELSE FloorScaledRoot(a, b, lo, mid - 1)

\* round(max(0, 100 - sqrt(a / b) * 100), 1) in tenths, for a >= 0, b > 0:
\* the possible values (two when the score lies halfway between tenths).
ConsistencyOfRatio(a, b) ==
    IF a >= b THEN {0}
    ELSE LET r == Rat(a, b)
             k == FloorScaledRoot(r[1], r[2], 0, 1999)
             m == k \div 2
         IN  IF k % 2 = 0 THEN {1000 - m}
             ELSE IF ScaledSquareCompare(k, r[1], r[2]) = 0
             THEN {1000 - m, 1000 - m - 1}
             ELSE {1000 - m - 1}

\* AnalyticsManager._calculate_consistency_score on the reading times of
\* the trend entries: population variance; 0.0 below two entries and for a
\* mean of 0.
AnalyticsConsistencyScore(times) ==
    LET n == Len(times)
        S == SumOf(times)
        Q == SumOfSquares(times)
    IN  IF n < 2 THEN {0}
        ELSE IF S = 0 THEN {0}
        ELSE ConsistencyOfRatio(n * Q - S * S, S * S)

\* An outcome of a call: a value returned or an exception raised.
Returned(v) == [raised |-> FALSE, value |-> v]
Raised(e) == [raised |-> TRUE, error |-> e]

\* ReadingPredictor._calculate_consistency_score: statistics.stdev is the
\* sample standard deviation (divisor n - 1); the division by a mean of 0
\* raises.
PredictorConsistencyScore(session_lengths) ==
    LET n == Len(session_lengths)
        S == SumOf(session_lengths)
        Q == SumOfSquares(session_lengths)
    IN  IF n < 2 THEN {Returned(0)}
        ELSE IF S = 0 THEN {Raised("ZeroDivisionError")}
        ELSE { Returned(v) :
                 v \in ConsistencyOfRatio(n * (n * Q - S * S),
                                          (n - 1) * S * S) }

\* Inputs of the consistency scores: sequences of small non-negative values.
MaxScoreLen == 3
MaxScoreValue == 4

ScoreInputs ==
    UNION { [1..n -> 0..MaxScoreValue] : n \in 0..MaxScoreLen }

\* AnalyticsManager._calculate_consistency_score(trends)
AnalyticsConsistency(values) ==
    /\ result = NoResult
    /\ \E v \in AnalyticsConsistencyScore(values) :
          result' = [op |-> "analytics_consistency", values |-> values,
                     outcome |-> Returned(v)]
    /\ UNCHANGED <<documents, sessions, now, inserted, handler, timer>>

\* ReadingPredictor._calculate_consistency_score(session_lengths)
PredictorConsistency(values) ==
    /\ result = NoResult
    /\ \E o \in PredictorConsistencyScore(values) :
          result' = [op |-> "predictor_consistency", values |-> values,
                     outcome |-> o]
    /\ UNCHANGED <<documents, sessions, now, inserted, handler, timer>>

\* The two score functions applied to every input.
InitConsistency ==
    /\ documents = <<>>
    /\ sessions = <<>>
    /\ now = DailyWindowDays
    /\ inserted = 0
    /\ result = NoResult
    /\ handler = NewHandler
    /\ timer = NewTimer

NextConsistency ==
    \/ \E values \in ScoreInputs : AnalyticsConsistency(values)
    \/ \E values \in ScoreInputs : PredictorConsistency(values)
    \/ ReturnToCaller

SpecConsistency == InitConsistency /\ [][NextConsistency]_vars

-----------------------------------------------------------------------------
(* Properties of the consistency scores (SpecConsistency) *)

ScoreReturned ==
    result.op \in {"analytics_consistency", "predictor_consistency"}

\* C14: for a non-empty list of non-negative values the score is within
\* [0, 100]; two or more identical values give exactly 100; fewer than two
\* values give 0.
C14_ScoreBounds ==
    ScoreReturned =>
        LET xs == result.values
            o == result.outcome
        IN  /\ Len(xs) >= 1 =>
                  ~o.raised /\ o.value >= 0 /\ o.value <= 1000
            /\ (Len(xs) >= 2 /\ \A i \in DOMAIN xs : xs[i] = xs[1]) =>
                  ~o.raised /\ o.value = 1000
            /\ Len(xs) < 2 => ~o.raised /\ o.value = 0

\* max(0, 100 - stddev / mean * 100) with the population standard deviation,
\* to the nearest tenth (in tenths); 0 below two values and for a mean of 0.
C15_PopulationScore(xs) ==
    LET n == Len(xs)
        S == SumOf(xs)
        a == n * SumOfSquares(xs) - S * S
        b == S * S
    IN  IF n < 2 \/ S = 0 \/ a >= b THEN {0}
        ELSE { t \in 0..1000 :
                 /\ (1999 - 2 * t <= 0
                     \/ (1999 - 2 * t) * (1999 - 2 * t) * b <= 4000000 * a)
                 /\ (2001 - 2 * t) * (2001 - 2 * t) * b >= 4000000 * a }

\* C15: for every sequence of values the Analytics Aggregator's score and
\* the Pattern Analyzer's score are equal, both being max(0, 100 - stddev /
\* mean * 100) with the population standard deviation, and both 0 for fewer
\* than two values or a mean of 0.
C15_SharedFormula ==
    ScoreReturned =>
        /\ ~result.outcome.raised
        /\ result.outcome.value \in C15_PopulationScore(result.values)
        /\ result.op = "analytics_consistency" =>
              result.outcome \in PredictorConsistencyScore(result.values)
        /\ result.op = "predictor_consistency" =>
              result.outcome.value \in AnalyticsConsistencyScore(result.values)

-----------------------------------------------------------------------------
(* The analytics aggregator (AnalyticsManager)                             *)
(*                                                                         *)
(* Dates are days; a session's start_time is its day (and its hour).  A    *)
(* failing daily query is <<"day", d>> in `failed`, a failing query by     *)
(* session type <<"mode", 0>>.                                             *)

\* The rows of get_daily_stats: sessions that start within the day.
DaySessions(day) == SelectSeq(sessions, LAMBDA s : s.start_time = day)

\* sum(s.duration or 0 for s in sessions)
RECURSIVE SumDurationOrZero(_)
SumDurationOrZero(rows) ==
    IF rows = <<>> THEN 0
    ELSE OrElse(Head(rows).duration, 0) + SumDurationOrZero(Tail(rows))

\* sum(s.pages_read or 0 for s in sessions)
RECURSIVE SumPagesOrZero(_)
SumPagesOrZero(rows) ==
    IF rows = <<>> THEN 0
    ELSE OrElse(Head(rows).pages_read, 0) + SumPagesOrZero(Tail(rows))

\* max([s.duration or 0 for s in sessions]) if sessions else 0
RECURSIVE LongestSession(_)
LongestSession(rows) ==
    IF rows = <<>> THEN 0
    ELSE Max(OrElse(Head(rows).duration, 0), LongestSession(Tail(rows)))

\* session.session_type or 'regular'
SessionTypeOf(s) ==
    IF IsNone(s.session_type) \/ Val(s.session_type) = ""
    THEN "regular" ELSE Val(s.session_type)

\* The session_types dictionary: type -> number of sessions.
SessionTypeCounts(rows) ==
    [ t \in { SessionTypeOf(rows[i]) : i \in DOMAIN rows } |->
        Cardinality({ i \in DOMAIN rows : SessionTypeOf(rows[i]) = t }) ]

\* total_pages / total_time if total_time > 0 else 0
AverageSpeed(total_pages, total_time) ==
    IF total_time > 0 THEN Rat(total_pages, total_time) ELSE RInt(0)

\* get_daily_stats(target_date): the possible return values; times in
\* tenths, the speed in hundredths.  A failing query is caught at line 56.
GetDailyStats(failed, day) ==
    IF <<"day", day>> \in failed
    THEN {EmptyResult}
    ELSE
    LET rows == DaySessions(day)
        total_time == SumDurationOrZero(rows)
        total_pages == SumPagesOrZero(rows)
    IN  { [ empty |-> FALSE,
            date |-> day,
            total_reading_time |-> tt,
            total_pages_read |-> total_pages,
            session_count |-> Len(rows),
            average_reading_speed |-> sp,
            session_types |-> SessionTypeCounts(rows),
            longest_session |-> LongestSession(rows) ] :
          tt \in RoundTo(RInt(total_time), 10),
          sp \in RoundTo(AverageSpeed(total_pages, total_time), 100) }

\* day_stats.get(key, 0)
GetOrZero(day_stats, key) == IF day_stats.empty THEN 0 ELSE day_stats[key]

\* date.weekday(): day 0 is a Monday.
Weekday(day) == day % 7

\* Mutant of StreakContinues: a day without sessions does not end the walk.
StreakContinues_always(session_count) == TRUE

\* The test of the streak walk on a day's session count.
StreakContinues(session_count) == session_count > 0

\* _calculate_reading_streak from current_date down to start_date: the
\* streak and the number of daily lookups made.
RECURSIVE ReadingStreakFrom(_, _, _)
ReadingStreakFrom(failed, start_date, current_date) ==
    IF current_date < start_date
    THEN [streak |-> 0, lookups |-> 0]
    ELSE LET day_stats == CHOOSE r \in GetDailyStats(failed, current_date) : TRUE
         IN  IF StreakContinues(GetOrZero(day_stats, "session_count"))
             THEN LET rest == ReadingStreakFrom(failed, start_date,
                                                current_date - 1)
                  IN  [streak |-> rest.streak + 1,
                       lookups |-> rest.lookups + 1]
             ELSE [streak |-> 0, lookups |-> 1]

ReadingStreak(failed, start_date, end_date) ==
    ReadingStreakFrom(failed, start_date, end_date)

\* Mutant of WeekEnd: the end of the week taken one day late.
WeekEnd_late(week_start) == week_start + 7

\* week_end = week_start + timedelta(days=6)
WeekEnd(week_start) == week_start + 6

\* The day_stats of the days first..last, in order: the possible lists.
RECURSIVE DailyStatsOfDays(_, _, _)
DailyStatsOfDays(failed, first, last) ==
    IF first > last THEN {<<>>}
    ELSE { <<h>> \o t : h \in GetDailyStats(failed, first),
                        t \in DailyStatsOfDays(failed, first + 1, last) }

\* The running total of day_stats.get(key, 0) over a list of day_stats.
RECURSIVE SumKey(_, _)
SumKey(stats, key) ==
    IF stats = <<>> THEN 0
    ELSE GetOrZero(Head(stats), key) + SumKey(Tail(stats), key)

\* max(list, key = ...get(key, 0)): the first element with the largest key.
FirstMaxBy(stats, key) ==
    stats[CHOOSE i \in DOMAIN stats :
            /\ \A j \in DOMAIN stats :
                  GetOrZero(stats[j], key) <= GetOrZero(stats[i], key)
            /\ \A j \in 1..(i - 1) :
                  GetOrZero(stats[j], key) < GetOrZero(stats[i], key)]

\* get_weekly_stats(week_start): the possible return values.  No query of
\* its own: every store access goes through get_daily_stats.  Besides the
\* returned dictionary the record keeps streak_lookups, the number of daily
\* lookups of the streak walk.
GetWeeklyStats(failed, week_start_arg) ==
    LET week_start == IF IsNone(week_start_arg)
                      THEN now - Weekday(now)
                      ELSE Val(week_start_arg)
        week_end == WeekEnd(week_start)
        walk == ReadingStreak(failed, week_start, week_end)
    IN  UNION {
        LET total_time == SumKey(daily_stats, "total_reading_time")
            total_pages == SumKey(daily_stats, "total_pages_read")
            total_sessions == SumKey(daily_stats, "session_count")
            most_productive_day == FirstMaxBy(daily_stats, "total_reading_time")
        IN  { [ empty |-> FALSE,
                week_start |-> week_start,
                week_end |-> week_end,
                daily_stats |-> daily_stats,
                total_reading_time |-> tt,
                total_pages_read |-> total_pages,
                total_sessions |-> total_sessions,
                average_daily_time |-> at,
                average_daily_pages |-> ap,
                most_productive_day |->
                    (IF most_productive_day.empty THEN None
                     ELSE Some(most_productive_day.date)),
                streak_days |-> walk.streak,
                streak_lookups |-> walk.lookups ] :
              tt \in RoundTo(Rat(total_time, 10), 10),
              at \in RoundTo(Rat(total_time, 70), 10),
              ap \in RoundTo(Rat(total_pages, 7), 10) }
        : daily_stats \in DailyStatsOfDays(failed, week_start, week_start + 6) }

\* list[-n:]
LastN(xs, n) == SubSeq(xs, Max(0, Len(xs) - n) + 1, Len(xs))

\* list[-14:-7]
PrecedingSeven(xs) ==
    SubSeq(xs, Max(0, Len(xs) - 14) + 1, Max(0, Len(xs) - 7))

\* The trend entry of a day.
TrendEntry(day, day_stats) ==
    [ date |-> day,
      reading_time |-> GetOrZero(day_stats, "total_reading_time"),
      pages_read |-> GetOrZero(day_stats, "total_pages_read"),
      sessions |-> GetOrZero(day_stats, "session_count") ]

RECURSIVE SumReadingTime(_)
SumReadingTime(trends) ==
    IF trends = <<>> THEN 0
    ELSE Head(trends).reading_time + SumReadingTime(Tail(trends))

RECURSIVE SumPagesRead(_)
SumPagesRead(trends) ==
    IF trends = <<>> THEN 0
    ELSE Head(trends).pages_read + SumPagesRead(Tail(trends))

\* abs(recent_avg - previous_avg) < 0.1, on the two sums of seven reading
\* times in tenths of a minute (avg = sum / 7).
TrendStable(recent_sum, previous_sum) ==
    Abs(recent_sum - previous_sum) < 7

\* Lines 184-186.
TrendDirection(recent_sum, previous_sum) ==
    IF TrendStable(recent_sum, previous_sum) THEN "stable"
    ELSE IF recent_sum > previous_sum THEN "improving"
    ELSE "declining"

\* max / min(trends, key = reading_time): the first extreme element.
BestDay(trends) ==
    trends[CHOOSE i \in DOMAIN trends :
             /\ \A j \in DOMAIN trends :
                   trends[j].reading_time <= trends[i].reading_time
             /\ \A j \in 1..(i - 1) :
                   trends[j].reading_time < trends[i].reading_time]

WorstDay(trends) ==
    trends[CHOOSE i \in DOMAIN trends :
             /\ \A j \in DOMAIN trends :
                   trends[j].reading_time >= trends[i].reading_time
             /\ \A j \in 1..(i - 1) :
                   trends[j].reading_time > trends[i].reading_time]

\* get_reading_trends(days): the possible outcomes.  The method has no
\* handler: max() of an empty list raises ValueError (line 189).  Besides
\* the returned dictionary the record keeps the unrounded sums recent_sum
\* and previous_sum (tenths of a minute over seven days).
GetReadingTrends(failed, days) ==
    LET end_date == now
        start_date == end_date - (days - 1)
    IN  UNION {
        LET trends == [i \in DOMAIN stats |->
                         TrendEntry(start_date + i - 1, stats[i])]
            total_time == SumReadingTime(trends)
            total_pages == SumPagesRead(trends)
            recent_sum == SumReadingTime(LastN(trends, 7))
            previous_sum == SumReadingTime(PrecedingSeven(trends))
        IN  IF trends = <<>>
            THEN {Raised("ValueError")}
            ELSE { Returned(
                   [ period_days |-> days,
                     start_date |-> start_date,
                     end_date |-> end_date,
                     daily_trends |-> trends,
                     total_reading_time |-> tt,
                     total_pages_read |-> total_pages,
                     average_daily_time |-> at,
                     trend_direction |-> TrendDirection(recent_sum, previous_sum),
                     recent_7day_avg |-> ra,
                     previous_7day_avg |-> pa,
                     best_day |-> BestDay(trends),
                     worst_day |-> WorstDay(trends),
                     consistency_score |-> cs,
                     recent_sum |-> recent_sum,
                     previous_sum |-> previous_sum ]) :
                   tt \in RoundTo(Rat(total_time, 10), 10),
                   at \in RoundTo(Rat(total_time, 10 * days), 10),
                   ra \in RoundTo(Rat(recent_sum, 70), 10),
                   pa \in RoundTo(Rat(previous_sum, 70), 10),
                   cs \in AnalyticsConsistencyScore(
                            [i \in DOMAIN trends |-> trends[i].reading_time]) }
        : stats \in DailyStatsOfDays(failed, start_date, end_date) }

\* filter_by(session_type = mode): rows whose type is NULL match no mode.
SessionsOfType(mode) ==
    SelectSeq(sessions, LAMBDA s : s.session_type = Some(mode))

\* analyze_sessions(sessions, mode_name) (lines 224-241): the possible
\* statistics; a mode without sessions gets no average_speed key.
AnalyzeSessions(rows, mode_name) ==
    IF rows = <<>>
    THEN {[mode |-> mode_name, sessions |-> 0, has_speed |-> FALSE]}
    ELSE
    LET total_time == SumDurationOrZero(rows)
        total_pages == SumPagesOrZero(rows)
    IN  { [ mode |-> mode_name,
            sessions |-> Len(rows),
            has_speed |-> TRUE,
            total_time |-> tt,
            total_pages |-> total_pages,
            average_speed |-> sp,
            average_duration |-> ad,
            pages_per_session |-> pp,
            speed |-> AverageSpeed(total_pages, total_time) ] :
          tt \in RoundTo(RInt(total_time), 10),
          sp \in RoundTo(AverageSpeed(total_pages, total_time), 100),
          ad \in RoundTo(Rat(total_time, Len(rows)), 10),
          pp \in RoundTo(Rat(total_pages, Len(rows)), 10) }

\* x.get('average_speed', 0)
SpeedOrZero(stats) == IF stats.has_speed THEN stats.average_speed ELSE 0

\* max(modes, key = lambda x: x.get('average_speed', 0))
MostEffective(modes) ==
    modes[CHOOSE i \in DOMAIN modes :
            /\ \A j \in DOMAIN modes : SpeedOrZero(modes[j]) <= SpeedOrZero(modes[i])
            /\ \A j \in 1..(i - 1) : SpeedOrZero(modes[j]) < SpeedOrZero(modes[i])]

\* _get_mode_recommendation: m['average_speed'] of all three modes is read
\* whichever branch is taken; a missing key raises KeyError.
ModeRecommendation(modes) ==
    LET pomodoro == modes[1]
        sprint == modes[2]
        regular == modes[3]
    IN  IF ~pomodoro.has_speed \/ ~sprint.has_speed \/ ~regular.has_speed
        THEN Raised("KeyError")
        ELSE IF pomodoro.average_speed > sprint.average_speed
                /\ pomodoro.average_speed > regular.average_speed
        THEN Returned("Try more Pomodoro sessions for better focus and speed")
        ELSE IF sprint.average_speed > regular.average_speed
        THEN Returned("Sprint sessions work well for you - consider more quick reading bursts")
        ELSE Returned("Regular reading sessions suit your style - maintain your current approach")

\* get_timer_mode_effectiveness: the possible return values; an exception
\* (a failing query, the KeyError of the recommendation) is caught at line
\* 259 and gives {}.
GetTimerModeEffectiveness(failed) ==
    IF <<"mode", 0>> \in failed
    THEN {EmptyResult}
    ELSE { LET modes == <<pomodoro_stats, sprint_stats, regular_stats>>
               most_effective == MostEffective(modes)
               recommendation == ModeRecommendation(modes)
           IN  IF recommendation.raised
               THEN EmptyResult
               ELSE [ empty |-> FALSE,
                      pomodoro |-> pomodoro_stats,
                      sprint |-> sprint_stats,
                      regular |-> regular_stats,
                      most_effective_mode |-> most_effective.mode,
                      recommendation |-> recommendation.value ] :
           pomodoro_stats \in AnalyzeSessions(SessionsOfType("pomodoro"), "Pomodoro"),
           sprint_stats \in AnalyzeSessions(SessionsOfType("sprint"), "Sprint"),
           regular_stats \in AnalyzeSessions(SessionsOfType("regular"), "Regular") }

\* Python truthiness of an optional float kept as a rational.
TruthyRat(o) == o # <<>> /\ o[1][1] # 0

\* get_document_analytics(document_id): the possible return values; a
\* failing query is caught at line 152.
GetDocumentAnalytics(failed, document_id) ==
    IF <<"document", document_id>> \in failed
       \/ document_id \notin DOMAIN documents
    THEN {EmptyResult}
    ELSE
    LET document == documents[document_id]
        rows == SessionsOf(document_id)
        total_time == SumDurationOrZero(rows)
        total_pages == SumPagesOrZero(rows)
        progress_percent ==
            IF Truthy(document.total_pages) /\ Truthy(document.current_page)
            THEN Rat(Val(document.current_page) * 100, Val(document.total_pages))
            ELSE RInt(0)
        estimated_completion ==
            IF TruthyRat(document.reading_speed)
               /\ Truthy(document.total_pages) /\ Truthy(document.current_page)
            THEN { Some(e) :
                     e \in RoundTo(RDiv(RInt(Val(document.total_pages)
                                             - Val(document.current_page)),
                                        Val(document.reading_speed)), 10) }
            ELSE {None}
        session_count == Len(rows)
        avg_session_length ==
            IF session_count > 0 THEN Rat(total_time, session_count)
            ELSE RInt(0)
    IN  { [ empty |-> FALSE,
            document_id |-> document_id,
            total_pages |-> document.total_pages,
            current_page |-> document.current_page,
            progress_percent |-> pp,
            total_reading_time |-> tt,
            total_pages_read |-> total_pages,
            session_count |-> session_count,
            average_session_length |-> al,
            reading_speed |-> document.reading_speed,
            estimated_completion_time |-> ec,
            first_session |->
                (IF rows = <<>> THEN None ELSE Some(rows[1].start_time)),
            last_session |->
                (IF rows = <<>> THEN None ELSE Some(rows[Len(rows)].start_time)) ] :
          pp \in RoundTo(progress_percent, 10),
          tt \in RoundTo(RInt(total_time), 10),
          al \in RoundTo(avg_session_length, 10),
          ec \in estimated_completion }

-----------------------------------------------------------------------------
(* The pattern analyzer (ReadingPredictor.analyze_reading_patterns) *)

PatternSampleLimit == 100
RecentWindowDays == 7

\* [s.duration for s in sessions if s.duration]
RECURSIVE TruthyDurations(_)
TruthyDurations(rows) ==
    IF rows = <<>> THEN <<>>
    ELSE (IF Truthy(Head(rows).duration) THEN <<Val(Head(rows).duration)>>
          ELSE <<>>) \o TruthyDurations(Tail(rows))

\* [s.pages_read for s in sessions if s.pages_read]
RECURSIVE TruthyPages(_)
TruthyPages(rows) ==
    IF rows = <<>> THEN <<>>
    ELSE (IF Truthy(Head(rows).pages_read) THEN <<Val(Head(rows).pages_read)>>
          ELSE <<>>) \o TruthyPages(Tail(rows))

\* max(hour_counts, key = hour_counts.get): the first hour, in the order the
\* hours were met, with the largest count.
MostProductiveHour(rows) ==
    LET count(h) == Cardinality({ i \in DOMAIN rows : rows[i].hour = h })
        i0 == CHOOSE i \in DOMAIN rows :
                /\ \A j \in DOMAIN rows : count(rows[j].hour) <= count(rows[i].hour)
                /\ \A j \in 1..(i - 1) : count(rows[j].hour) < count(rows[i].hour)
    IN  rows[i0].hour

\* total_pages / total_time over the rows, 0 when no time (lines 140-143,
\* 154-157).
SpeedOver(rows) ==
    AverageSpeed(SumOf(TruthyPages(rows)), SumOf(TruthyDurations(rows)))

\* _calculate_recent_reading_speed: sessions started in the last 7 days.
RecentReadingSpeed ==
    SpeedOver(SelectSeq(sessions,
                        LAMBDA s : s.start_time >= now - RecentWindowDays))

\* _calculate_historical_reading_speed: sessions started between 30 and 7
\* days ago.
HistoricalReadingSpeed ==
    SpeedOver(SelectSeq(sessions,
                        LAMBDA s : /\ s.start_time >= now - DailyWindowDays
                                   /\ s.start_time < now - RecentWindowDays))

\* _generate_pattern_recommendations
PatternRecommendations(rows) ==
    LET unique_dates == Cardinality({ rows[i].start_time : i \in DOMAIN rows })
    IN  (IF Len(rows) < 10
         THEN <<"Build more reading data for better predictions">>
         ELSE <<>>)
        \o (IF 10 * unique_dates < 7 * Len(rows)
            THEN <<"Try spreading reading across more days for better retention">>
            ELSE <<>>)

\* statistics.mean(xs) rounded to one decimal if xs else 0
RoundedMean(xs) ==
    IF xs = <<>> THEN {0} ELSE RoundTo(Rat(SumOf(xs), Len(xs)), 10)

\* analyze_reading_patterns: the possible return values; every exception is
\* caught at line 81 and gives {}.
AnalyzeReadingPatterns(failed) ==
    IF <<"patterns", 0>> \in failed
    THEN {EmptyResult}
    ELSE
    LET rows == MostRecent(sessions, PatternSampleLimit)
        session_lengths == TruthyDurations(rows)
        pages_per_session == TruthyPages(rows)
        recent_speed == RecentReadingSpeed
        historical_speed == HistoricalReadingSpeed
    IN  IF rows = <<>>
        THEN {EmptyResult}
        ELSE { IF cs.raised
               THEN EmptyResult
               ELSE [ empty |-> FALSE,
                      total_sessions_analyzed |-> Len(rows),
                      average_session_length |-> al,
                      average_pages_per_session |-> ap,
                      most_productive_hour |-> MostProductiveHour(rows),
                      reading_speed_trend |->
                          (IF RLt(historical_speed, recent_speed)
                           THEN "improving" ELSE "declining"),
                      recent_avg_speed |-> rs,
                      historical_avg_speed |-> hs,
                      consistency_score |-> cs.value,
                      recommendations |-> PatternRecommendations(rows) ] :
               al \in RoundedMean(session_lengths),
               ap \in RoundedMean(pages_per_session),
               rs \in RoundTo(recent_speed, 100),
               hs \in RoundTo(historical_speed, 100),
               cs \in PredictorConsistencyScore(session_lengths) }

-----------------------------------------------------------------------------
(* Store contents and actions of the analytics queries *)

\* A reading_sessions row with its session_type and the hour of its
\* start_time.
SessionRow(d, session_type, shape, day, hour) ==
    [document_id |-> d, duration |-> shape[1], pages_read |-> shape[2],
     start_time |-> day, session_type |-> session_type, hour |-> hour]

\* A documents row with its reading_speed (pages per minute).
AnalyticsDocumentRow(shape, reading_speed) ==
    [total_pages |-> shape[1], current_page |-> shape[2],
     reading_speed |-> reading_speed]

AnalyticsDocuments ==
    { [d \in {1} |-> AnalyticsDocumentRow(<<Some(100), Some(50)>>, speed)] :
        speed \in {None, Some(<<1, 2>>)} }

\* One session of the given shape on each day of first..last, oldest first
\* (NoSession: no session).
NoSession == <<"none">>

RECURSIVE OnePerDay(_, _, _)
OnePerDay(shape, first, last) ==
    IF shape = NoSession \/ first > last THEN <<>>
    ELSE <<SessionRow(1, Some("regular"), shape, first, 9)>>
         \o OnePerDay(shape, first + 1, last)

\* Minutes and pages of the sessions of a uniform week.
WeekShapes == { NoSession, <<Some(30), Some(10)>>, <<Some(45), Some(10)>> }

\* Two uniform weeks: the week before the last seven days, then the last
\* seven days up to `today`.
TwoWeekStores(today) ==
    { OnePerDay(a, today - 13, today - 7) \o OnePerDay(b, today - 6, today) :
        a \in WeekShapes, b \in WeekShapes }

\* One session on each day of `active`, oldest first.
RECURSIVE OnDays(_, _, _)
OnDays(active, first, last) ==
    IF first > last THEN <<>>
    ELSE (IF first \in active
          THEN <<SessionRow(1, Some("regular"), <<Some(20), Some(10)>>, first, 9)>>
          ELSE <<>>)
         \o OnDays(active, first + 1, last)

\* The Monday of the calendar week before the one of day 30.
LastMonday == 21

\* A week with any set of active days.
ActiveDayStores ==
    { OnDays(active, LastMonday, LastMonday + 6) :
        active \in SUBSET (LastMonday..(LastMonday + 6)) }

\* <<duration, pages_read>> of the session of a timer mode, if any.
ModeShapes == { NoSession, <<Some(20), Some(10)>>, <<Some(40), Some(10)>> }

ModeRow(session_type, shape, day, hour) ==
    IF shape = NoSession THEN <<>>
    ELSE <<SessionRow(1, session_type, shape, day, hour)>>

\* Up to one session per timer mode and one whose session_type is NULL.
ModeStores(today) ==
    { ModeRow(Some("pomodoro"), p, today - 3, 9)
      \o ModeRow(Some("sprint"), s, today - 2, 9)
      \o ModeRow(Some("regular"), r, today - 1, 20)
      \o ModeRow(None, u, today - 1, 20) :
        p \in ModeShapes, s \in ModeShapes, r \in ModeShapes,
        u \in { NoSession, <<Some(20), None>> } }

\* PDFHandler._end_session: the only writer of reading_sessions; the row is
\* of type 'regular' and starts on the current day.
CloseSession(shape) ==
    /\ result = NoResult
    /\ inserted < MaxInserted
    /\ sessions' = Append(sessions, SessionRow(1, Some("regular"), shape, now, 9))
    /\ inserted' = inserted + 1
    /\ UNCHANGED <<documents, now, result, handler, timer>>

\* No query fails.
NoFailure == {}

\* daily_stats(target_date); None is today.
\* A daily_stats that deletes the rows it has read.
DailyStats_writes(failed, target_date) ==
    /\ result = NoResult
    /\ \E r \in GetDailyStats(failed, OrElse(target_date, now)) :
          result' = [op |-> "daily_stats", target_date |-> target_date,
                     failed |-> failed, outcome |-> Returned(r)]
    /\ sessions' = SelectSeq(sessions,
                     LAMBDA s : s.start_time # OrElse(target_date, now))
    /\ UNCHANGED <<documents, now, inserted, handler, timer>>

DailyStats(failed, target_date) ==
    /\ result = NoResult
    /\ \E r \in GetDailyStats(failed, OrElse(target_date, now)) :
          result' = [op |-> "daily_stats", target_date |-> target_date,
                     failed |-> failed, outcome |-> Returned(r)]
    /\ UNCHANGED <<documents, sessions, now, inserted, handler, timer>>

\* weekly_stats(week_start); None is the Monday of the current week.
WeeklyStats(failed, week_start) ==
    /\ result = NoResult
    /\ \E r \in GetWeeklyStats(failed, week_start) :
          result' = [op |-> "weekly_stats", week_start |-> week_start,
                     failed |-> failed, outcome |-> Returned(r)]
    /\ UNCHANGED <<documents, sessions, now, inserted, handler, timer>>

\* reading_trends(days)
ReadingTrends(failed, days) ==
    /\ result = NoResult
    /\ \E o \in GetReadingTrends(failed, days) :
          result' = [op |-> "reading_trends", days |-> days,
                     failed |-> failed, outcome |-> o]
    /\ UNCHANGED <<documents, sessions, now, inserted, handler, timer>>

\* timer_mode_effectiveness()
TimerModeEffectiveness(failed) ==
    /\ result = NoResult
    /\ \E r \in GetTimerModeEffectiveness(failed) :
          result' = [op |-> "timer_mode_effectiveness",
                     failed |-> failed, outcome |-> Returned(r)]
    /\ UNCHANGED <<documents, sessions, now, inserted, handler, timer>>

\* document_analytics(document_id)
DocumentAnalytics(failed, d) ==
    /\ result = NoResult
    /\ \E r \in GetDocumentAnalytics(failed, d) :
          result' = [op |-> "document_analytics", document_id |-> d,
                     failed |-> failed, outcome |-> Returned(r)]
    /\ UNCHANGED <<documents, sessions, now, inserted, handler, timer>>

\* analyze_patterns()
AnalyzePatterns(failed) ==
    /\ result = NoResult
    /\ \E r \in AnalyzeReadingPatterns(failed) :
          result' = [op |-> "analyze_patterns",
                     failed |-> failed, outcome |-> Returned(r)]
    /\ UNCHANGED <<documents, sessions, now, inserted, handler, timer>>

\* Arguments of the analytics queries.
TargetDates == { None, Some(DailyWindowDays - 1), Some(LastMonday) }
WeekStarts == { None, Some(LastMonday), Some(DailyWindowDays - 6) }
TrendDays == { 0, 1, 7, 13, 14, 15 }

\* The analytics aggregator over a store that answers every query.
InitAnalytics ==
    /\ documents \in AnalyticsDocuments
    /\ sessions \in TwoWeekStores(DailyWindowDays) \cup ActiveDayStores
                    \cup ModeStores(DailyWindowDays)
    /\ now = DailyWindowDays
    /\ inserted = 0
    /\ result = NoResult
    /\ handler = NewHandler
    /\ timer = NewTimer

NextAnalytics ==
    \/ \E shape \in InsertedShapes : CloseSession(shape)
    \/ Tick
    \/ \E t \in TargetDates : DailyStats(NoFailure, t)
    \/ \E w \in WeekStarts : WeeklyStats(NoFailure, w)
    \/ \E days \in TrendDays : ReadingTrends(NoFailure, days)
    \/ TimerModeEffectiveness(NoFailure)
    \/ ReturnToCaller

SpecAnalytics == InitAnalytics /\ [][NextAnalytics]_vars

-----------------------------------------------------------------------------
(* Every public query of the estimation and analytics core, over a store   *)
(* whose queries may fail, beside the writer of reading_sessions           *)

\* The queries the store may fail.
CoreQueries ==
    { <<"document", 1>>, <<"documents", 0>>, <<"mode", 0>>, <<"patterns", 0>> }
    \cup { <<"day", d>> :
             d \in (DailyWindowDays - 15)..(DailyWindowDays + MaxTicks) }

\* The queries that fail during one call: none, one daily query, one
\* document lookup, or all of them.
CoreFailures ==
    { NoFailure, { <<"day", DailyWindowDays - 1>> }, { <<"document", 1>> },
      CoreQueries }

CoreTrendDays == { 0, 1, 14 }

InitCore ==
    /\ documents \in AnalyticsDocuments
    /\ sessions \in TwoWeekStores(DailyWindowDays) \cup ModeStores(DailyWindowDays)
    /\ now = DailyWindowDays
    /\ inserted = 0
    /\ result = NoResult
    /\ handler = NewHandler
    /\ timer = NewTimer

NextCore ==
    \/ \E shape \in InsertedShapes : CloseSession(shape)
    \/ Tick
    \/ \E failed \in CoreFailures :
          \/ \E d \in {1, 3} : EstimateCompletionUnder(failed, d)
          \/ EstimateAllDocuments(failed)
          \/ \E offset \in PortfolioOffsets : EvaluateGoalUnder(failed, offset, None)
          \/ DailyStats(failed, None)
          \/ WeeklyStats(failed, None)
          \/ \E days \in CoreTrendDays : ReadingTrends(failed, days)
          \/ TimerModeEffectiveness(failed)
          \/ \E d \in {1, 3} : DocumentAnalytics(failed, d)
          \/ AnalyzePatterns(failed)
    \/ ReturnToCaller

SpecCore == InitCore /\ [][NextCore]_vars

-----------------------------------------------------------------------------
(* Properties of the core as a whole (SpecCore) *)

\* C13: estimate_completion, estimate_all_documents, evaluate_goal,
\* daily_stats, weekly_stats, reading_trends(days) for every days >= 0,
\* timer_mode_effectiveness and analyze_patterns return a result (possibly
\* empty) and never raise, whatever the store holds and whichever of its
\* queries fail.
C13_NeverRaises ==
    /\ result.op \in {"estimate_completion", "estimate_all_documents",
                      "evaluate_goal"}
          => result.ret.empty \in BOOLEAN
    /\ result.op \in {"daily_stats", "weekly_stats", "reading_trends",
                      "timer_mode_effectiveness", "analyze_patterns"}
          => ~result.outcome.raised

-----------------------------------------------------------------------------
(* Properties of the analytics aggregator (SpecAnalytics) *)

\* The reading time of the days first..last, in tenths of a minute.
RECURSIVE C16_ReadingTime(_, _)
C16_ReadingTime(first, last) ==
    IF first > last THEN 0
    ELSE 10 * SumDurationOrZero(DaySessions(first))
         + C16_ReadingTime(first + 1, last)

TrendsReturned == result.op = "reading_trends" /\ ~result.outcome.raised

\* C16: with the mean reading time of the last 7 days and that of the 7
\* days before them, trend_direction is 'stable' exactly when the two means
\* differ by less than 0.1, otherwise 'improving' when the recent mean is
\* the higher and 'declining' when it is the lower; with days = 14 over
\* seven 30-minute days followed by seven 45-minute days: 'improving',
\* recent_7day_avg = 45.0, previous_7day_avg = 30.0.
C16_TrendDirection ==
    TrendsReturned =>
        LET r == result.outcome.value
            recent == C16_ReadingTime(now - 6, now)
            previous == C16_ReadingTime(now - 13, now - 7)
        IN  /\ r.trend_direction \in {"stable", "improving", "declining"}
            /\ r.trend_direction = "stable" <=> Abs(recent - previous) < 7
            /\ r.trend_direction = "improving" <=>
                  (Abs(recent - previous) >= 7 /\ recent > previous)
            /\ r.trend_direction = "declining" <=>
                  (Abs(recent - previous) >= 7 /\ recent < previous)
            /\ (/\ result.days = 14
                /\ sessions = OnePerDay(<<Some(30), Some(10)>>, now - 13, now - 7)
                              \o OnePerDay(<<Some(45), Some(10)>>, now - 6, now))
                  => /\ r.trend_direction = "improving"
                     /\ r.recent_7day_avg = 450
                     /\ r.previous_7day_avg = 300

WeeklyReturned == result.op = "weekly_stats"

\* The day has at least one session.
ActiveDay(day) == \E i \in DOMAIN sessions : sessions[i].start_time = day

\* C17: streak_days is the number of consecutive days with a session
\* counted backward from week_end, stopping at the first day without one or
\* at week_start; so 0 <= streak_days <= 7, streak_days = 0 when week_end
\* has no session, and the walk makes at most 7 daily lookups.
C17_Streak ==
    WeeklyReturned =>
        LET r == result.outcome.value
            week_end == r.week_start + 6
            n == r.streak_days
        IN  /\ r.week_end = week_end
            /\ n \in 0..7
            /\ \A i \in 0..(n - 1) : ActiveDay(week_end - i)
            /\ n < 7 => ~ActiveDay(week_end - n)
            /\ ~ActiveDay(week_end) => n = 0
            /\ r.streak_lookups <= 7

\* C17 witness: a walk that counted some days and stopped at a day without
\* sessions, with an active day earlier in the week.
C17_Witness ==
    /\ WeeklyReturned
    /\ result.outcome.value.streak_days \in 2..5
    /\ ActiveDay(result.outcome.value.week_start)
    /\ ~ActiveDay(result.outcome.value.week_start + 1)

\* The run of active days that ends at day `last` and does not reach
\* before day `first`.
RECURSIVE C18_Run(_, _)
C18_Run(first, last) ==
    IF last < first \/ ~ActiveDay(last) THEN 0
    ELSE 1 + C18_Run(first, last - 1)

\* The week of Monday `monday` has sessions on Monday, Tuesday and
\* Wednesday and none from Thursday to Sunday.
C18_Scenario(monday) ==
    /\ Weekday(monday) = 0
    /\ \A d \in monday..(monday + 6) : ActiveDay(d) <=> d <= monday + 2

\* C18 (as claimed): in the scenario weekly_stats gives streak_days = 4; in
\* every other case streak_days is the run of active days ending at
\* week_end.
C18_StreakScenario ==
    WeeklyReturned =>
        LET r == result.outcome.value
        IN  IF C18_Scenario(r.week_start)
            THEN r.streak_days = 4
            ELSE r.streak_days = C18_Run(r.week_start, r.week_start + 6)

\* C18 (amended): in the scenario weekly_stats gives streak_days = 0, Sunday
\* having no session; in every case streak_days is the run of active days
\* ending at week_end.
C18_StreakScenarioAmended ==
    WeeklyReturned =>
        LET r == result.outcome.value
        IN  /\ C18_Scenario(r.week_start) => r.streak_days = 0
            /\ r.streak_days = C18_Run(r.week_start, r.week_start + 6)

\* C18 witness: the scenario.
C18_Witness ==
    /\ WeeklyReturned
    /\ C18_Scenario(result.outcome.value.week_start)
    /\ result.outcome.value.total_sessions = 3

\* The sessions whose session_type is the mode.
C19_Sessions(mode) ==
    SelectSeq(sessions, LAMBDA s : s.session_type = <<mode>>)

\* Total pages over total time of the mode's sessions, as <<pages, time>>;
\* <<0, 1>> when the total time is 0.
C19_Speed(mode) ==
    LET time == SumDurationOrZero(C19_Sessions(mode))
        pages == SumPagesOrZero(C19_Sessions(mode))
    IN  IF time = 0 THEN <<0, 1>> ELSE <<pages, time>>

C19_ModeOf(name) ==
    IF name = "Pomodoro" THEN "pomodoro"
    ELSE IF name = "Sprint" THEN "sprint" ELSE "regular"

\* C19: for every session history, also when one or two of the modes
\* pomodoro, sprint, regular have no sessions, timer_mode_effectiveness
\* returns the statistics of the three modes and a most_effective_mode
\* whose average speed is at least that of the other two.
C19_MostEffectiveMode ==
    result.op = "timer_mode_effectiveness" =>
        LET r == result.outcome.value
        IN  /\ ~r.empty
            /\ r.pomodoro.sessions = Len(C19_Sessions("pomodoro"))
            /\ r.sprint.sessions = Len(C19_Sessions("sprint"))
            /\ r.regular.sessions = Len(C19_Sessions("regular"))
            /\ r.most_effective_mode \in {"Pomodoro", "Sprint", "Regular"}
            /\ \A m \in {"pomodoro", "sprint", "regular"} :
                  LET best == C19_Speed(C19_ModeOf(r.most_effective_mode))
                      other == C19_Speed(m)
                  IN  other[1] * best[2] <= best[1] * other[2]

\* The estimation and analytics operations.
C20_Operations ==
    {"estimate_completion", "estimate_all_documents", "evaluate_goal",
     "daily_stats", "weekly_stats", "reading_trends", "document_analytics",
     "timer_mode_effectiveness", "analyze_patterns"}

\* C20: no estimation or analytics operation writes to the store: a step in
\* which one of the nine operations computes its result, whether the store
\* answered its queries or failed them, leaves the ReadingSession rows and
\* every Document field as they were.
C20_ReadOnly ==
    [][result' # NoResult =>
          /\ result = NoResult
          /\ result'.op \in C20_Operations
          /\ sessions' = sessions
          /\ documents' = documents]_vars

\* analyze_patterns has answered over a store that holds the rows it had
\* before the call, a row inserted since Init among them.
C20_Witness ==
    /\ result.op = "analyze_patterns"
    /\ ~result.outcome.value.empty
    /\ inserted > 0
    /\ Len(sessions) > inserted

-----------------------------------------------------------------------------
(* The PDF handler: open, navigate, close (PDFHandler) *)

\* The PDF files on disk, and len(fitz.open(filepath)).  A file keeps its
\* pages; "missing.pdf" cannot be opened (fitz.open raises).
Files == {"a.pdf", "b.pdf"}
Filepaths == Files \cup {"missing.pdf"}
PagesOfFile(filepath) == IF filepath = "a.pdf" THEN 3 ELSE 2

\* A documents row as _get_or_create_document writes it.
HandlerDocumentRow(filepath, total_pages, current_page) ==
    [filepath |-> filepath, total_pages |-> Some(total_pages),
     current_page |-> Some(current_page), reading_speed |-> None]

\* query(Document).filter_by(filepath=filepath).first(): the ids found.
DocumentsOfFile(docs, filepath) ==
    { d \in DOMAIN docs : docs[d].filepath = filepath }

\* _get_or_create_document: the id of the file's row, after creating the row
\* (current_page = 1) when there is none.  Ids are assigned in sequence.
GetOrCreateDocument(docs, filepath, total_pages) ==
    IF DocumentsOfFile(docs, filepath) # {}
    THEN [document_id |-> Some(CHOOSE d \in DocumentsOfFile(docs, filepath) :
                                  \A e \in DocumentsOfFile(docs, filepath) : d <= e),
          documents |-> docs]
    ELSE LET id == Cardinality(DOMAIN docs) + 1
         IN  [document_id |-> Some(id),
              documents |->
                [d \in DOMAIN docs \cup {id} |->
                   IF d = id THEN HandlerDocumentRow(filepath, total_pages, 1)
                   ELSE docs[d]]]

\* _get_saved_position: the row's current_page, 0-based; 0 without a row or
\* with a falsy current_page.
GetSavedPosition(docs, document_id) ==
    IF ~Truthy(document_id) THEN 0
    ELSE IF Val(document_id) \in DOMAIN docs
            /\ Truthy(docs[Val(document_id)].current_page)
         THEN Val(docs[Val(document_id)].current_page) - 1
         ELSE 0

\* _start_page_timing
StartPageTiming(h) == [h EXCEPT !.page_start_time = Some(now)]

\* _end_page_timing: the current page gets an entry in page_times.
EndPageTiming(h) ==
    IF h.page_start_time # None
    THEN [h EXCEPT !.page_times = @ \cup {h.current_page},
                   !.page_start_time = None]
    ELSE h

\* _start_session
StartSession(h) ==
    StartPageTiming([h EXCEPT !.session_start_time = Some(now),
                              !.page_times = {}])

\* start_page of the row written by _end_session: self.current_page + 1.
StartPage(h, docs) == h.current_page + 1

\* Mutant of PagesRead: the pages of the document.
PagesRead_pages(h) == h.total_pages

\* pages_read of the row written by _end_session: len(self.page_times).
PagesRead(h) == Cardinality(h.page_times)

\* The row _end_session writes: duration is the elapsed time in minutes.
ClosedSessionRow(h, docs, elapsed) ==
    [document_id |-> Val(h.document_id),
     start_time |-> Val(h.session_start_time),
     duration |-> Some(elapsed),
     pages_read |-> Some(PagesRead(h)),
     start_page |-> Some(StartPage(h, docs)),
     end_page |-> Some(h.current_page + 1),
     session_type |-> Some("regular"),
     hour |-> 9]

\* _end_session: handler and reading_sessions afterwards.
EndSession(h, docs, sess, elapsed) ==
    IF h.session_start_time = None \/ ~Truthy(h.document_id)
    THEN [handler |-> h, sessions |-> sess]
    ELSE [handler |-> [h EXCEPT !.session_start_time = None],
          sessions |-> Append(sess, ClosedSessionRow(h, docs, elapsed))]

\* get_reading_stats()['reading_speed'], in hundredths; {0} for the empty
\* dictionary the handler returns when no session is open.
ReadingStatsSpeed(h, elapsed) ==
    IF h.session_start_time = None THEN {0}
    ELSE IF elapsed > 0 /\ Cardinality(h.page_times) > 0
         THEN RoundTo(Rat(Cardinality(h.page_times), elapsed), 100)
         ELSE {0}

\* _save_progress: the documents table afterwards.
SaveProgress(h, docs, elapsed) ==
    IF ~Truthy(h.document_id) \/ Val(h.document_id) \notin DOMAIN docs
    THEN {docs}
    ELSE { [docs EXCEPT ![Val(h.document_id)] =
              [@ EXCEPT !.current_page = Some(h.current_page + 1),
                        !.reading_speed =
                            IF speed > 0 THEN Some(<<speed, 100>>) ELSE @]] :
             speed \in ReadingStatsSpeed(h, elapsed) }

\* close_pdf: handler, documents and reading_sessions afterwards.
ClosePdfOutcomes(h, docs, sess, elapsed) ==
    IF h.current_doc = None
    THEN {[handler |-> h, documents |-> docs, sessions |-> sess]}
    ELSE LET ended == EndSession(EndPageTiming(h), docs, sess, elapsed)
         IN  { [handler |-> [ended.handler EXCEPT !.current_doc = None,
                                                 !.document_id = None],
                documents |-> saved,
                sessions |-> ended.sessions] :
                 saved \in SaveProgress(ended.handler, docs, elapsed) }

\* open_pdf after the close of the document that was open: handler,
\* documents and return value.
OpenPdfOutcome(h, docs, filepath) ==
    IF filepath \notin Files
    THEN [handler |-> h, documents |-> docs, ret |-> FALSE]
    ELSE LET total_pages == PagesOfFile(filepath)
             row == GetOrCreateDocument(docs, filepath, total_pages)
             opened == [h EXCEPT !.current_doc = Some(filepath),
                                 !.total_pages = total_pages,
                                 !.document_id = row.document_id,
                                 !.current_page =
                                     GetSavedPosition(row.documents,
                                                      row.document_id)]
         IN  [handler |-> StartSession(opened),
              documents |-> row.documents, ret |-> TRUE]

\* Mutant of NoSuchPage: the page after the last one is let through.
NoSuchPage_late(h, page_num) ==
    h.current_doc = None \/ page_num < 0 \/ page_num > h.total_pages

\* The early return of go_to_page.
NoSuchPage(h, page_num) ==
    h.current_doc = None \/ page_num < 0 \/ page_num >= h.total_pages

\* go_to_page: handler and return value.
GoToPageOutcome(h, page_num) ==
    IF NoSuchPage(h, page_num)
    THEN [handler |-> h, ret |-> FALSE]
    ELSE [handler |-> StartPageTiming(
                          [EndPageTiming(h) EXCEPT !.current_page = page_num]),
          ret |-> TRUE]

\* Elapsed minutes between open and close, read from the wall clock.
ElapsedMinutes == {20}

\* Sessions closed in a behaviour.
MaxClosed == 2

\* open_pdf(filepath)
OpenPdf(filepath) ==
    /\ result = NoResult
    /\ handler.current_doc # None => inserted < MaxClosed
    /\ \E elapsed \in ElapsedMinutes :
         \E closed \in ClosePdfOutcomes(handler, documents, sessions, elapsed) :
           LET opened == OpenPdfOutcome(closed.handler, closed.documents, filepath)
           IN  /\ handler' = opened.handler
               /\ documents' = opened.documents
               /\ sessions' = closed.sessions
               /\ inserted' = inserted + Len(closed.sessions) - Len(sessions)
               /\ result' = [op |-> "open_pdf", filepath |-> filepath,
                             ret |-> opened.ret]
    /\ UNCHANGED <<now, timer>>

\* close_pdf()
ClosePdf ==
    /\ result = NoResult
    /\ handler.current_doc # None => inserted < MaxClosed
    /\ \E elapsed \in ElapsedMinutes :
         \E closed \in ClosePdfOutcomes(handler, documents, sessions, elapsed) :
           /\ handler' = closed.handler
           /\ documents' = closed.documents
           /\ sessions' = closed.sessions
           /\ inserted' = inserted + Len(closed.sessions) - Len(sessions)
    /\ result' = [op |-> "close_pdf"]
    /\ UNCHANGED <<now, timer>>

\* A go_to_page that also saves the open session's pages so far.
GoToPage_flushes(page_num) ==
    /\ result = NoResult
    /\ handler' = GoToPageOutcome(handler, page_num).handler
    /\ result' = [op |-> "go_to_page", page_num |-> page_num,
                  ret |-> GoToPageOutcome(handler, page_num).ret]
    /\ sessions' = EndSession(EndPageTiming(handler), documents, sessions,
                              0).sessions
    /\ UNCHANGED <<documents, now, inserted, timer>>

\* go_to_page(page_num)
GoToPage(page_num) ==
    /\ result = NoResult
    /\ handler' = GoToPageOutcome(handler, page_num).handler
    /\ result' = [op |-> "go_to_page", page_num |-> page_num,
                  ret |-> GoToPageOutcome(handler, page_num).ret]
    /\ UNCHANGED <<documents, sessions, now, inserted, timer>>

\* next_page()
NextPage ==
    /\ result = NoResult
    /\ handler' = GoToPageOutcome(handler, handler.current_page + 1).handler
    /\ result' = [op |-> "next_page", page_num |-> handler.current_page + 1,
                  ret |-> GoToPageOutcome(handler, handler.current_page + 1).ret]
    /\ UNCHANGED <<documents, sessions, now, inserted, timer>>

\* previous_page()
PreviousPage ==
    /\ result = NoResult
    /\ handler' = GoToPageOutcome(handler, handler.current_page - 1).handler
    /\ result' = [op |-> "previous_page", page_num |-> handler.current_page - 1,
                  ret |-> GoToPageOutcome(handler, handler.current_page - 1).ret]
    /\ UNCHANGED <<documents, sessions, now, inserted, timer>>

\* The reader over a store the handler has written: no document yet, or
\* "a.pdf" read before and left on its second page.
InitHandler ==
    /\ \/ /\ documents = <<>>
          /\ sessions = <<>>
       \/ /\ documents = [d \in {1} |-> HandlerDocumentRow("a.pdf", 3, 2)]
          /\ sessions = <<ClosedSessionRow(
                            [NewHandler EXCEPT !.document_id = Some(1),
                                               !.session_start_time =
                                                   Some(DailyWindowDays - 1),
                                               !.current_page = 1,
                                               !.page_times = {0, 1}],
                            documents, 20)>>
    /\ now = DailyWindowDays
    /\ inserted = 0
    /\ result = NoResult
    /\ handler = NewHandler
    /\ timer = NewTimer

\* Pages asked of go_to_page: before the first, each page, after the last.
PageNumbers == -1 .. 3

NextHandler ==
    \/ \E filepath \in Filepaths : OpenPdf(filepath)
    \/ ClosePdf
    \/ \E page_num \in PageNumbers : GoToPage(page_num)
    \/ NextPage
    \/ PreviousPage
    \/ \E d \in {1} : TimePerPage(d)
    \/ \E d \in {1} : EstimateCompletion(d)
    \/ DailyStats(NoFailure, None)
    \/ WeeklyStats(NoFailure, None)
    \/ ReturnToCaller

SpecHandler == InitHandler /\ [][NextHandler]_vars

-----------------------------------------------------------------------------
(* Properties of the PDF handler (SpecHandler) *)

\* A reading session is open.
SessionOpen(h) == h.session_start_time # None

Navigations == {"go_to_page", "next_page", "previous_page"}

\* C22: the current_page of every Document row with total_pages > 0 is
\* within 1 .. total_pages, and go_to_page, next_page or previous_page to a
\* page outside the open document returns False and leaves current_page,
\* page_times and page_start_time as they were.
C22_CurrentPageInRange ==
    /\ [](\A d \in DOMAIN documents :
            Val(documents[d].total_pages) > 0 =>
                Val(documents[d].current_page) \in
                    1 .. Val(documents[d].total_pages))
    /\ [][(/\ result'.op \in Navigations
           /\ handler.current_doc # None
           /\ result'.page_num \notin 0 .. handler.total_pages - 1) =>
              /\ result'.ret = FALSE
              /\ handler' = handler]_vars

\* next_page has been refused on the last page of a document whose row holds
\* that page as its current_page.
C22_Witness ==
    /\ result.op = "next_page"
    /\ result.ret = FALSE
    /\ handler.current_doc # None
    /\ handler.current_page = handler.total_pages - 1
    /\ documents[Val(handler.document_id)].current_page
         = documents[Val(handler.document_id)].total_pages

\* The pages the reader has been on since the session opened: those with an
\* entry in page_times and the one being shown.
C23_Visited(h) == h.page_times \cup {h.current_page}

\* The step closes the open session: close_pdf, or open_pdf over an open
\* document.
C23_Closes ==
    SessionOpen(handler) /\ result'.op \in {"open_pdf", "close_pdf"}

\* C23: the session opens with the opening page as the only page visited,
\* an accepted navigation adds its page to the pages visited, and the close
\* writes exactly one row, whose pages_read is the number of distinct pages
\* visited, within 1 .. total_pages; no other step writes a row.
C23_DistinctPages ==
    [][/\ (result'.op = "open_pdf" /\ result'.ret) =>
              C23_Visited(handler') = {handler'.current_page}
       /\ (result'.op \in Navigations /\ result'.ret) =>
              C23_Visited(handler') =
                  C23_Visited(handler) \cup {result'.page_num}
       /\ C23_Closes =>
              /\ Len(sessions') = Len(sessions) + 1
              /\ sessions'[Len(sessions')].pages_read =
                     Some(Cardinality(C23_Visited(handler)))
              /\ Cardinality(C23_Visited(handler)) \in 1 .. handler.total_pages
       /\ ~C23_Closes => sessions' = sessions]_vars

\* A session on a new three-page document has been closed back on its first
\* page after a visit to the second: two pages read, the first one twice.
C23_Witness ==
    /\ result.op = "close_pdf"
    /\ Len(sessions) = 1
    /\ inserted = 1
    /\ handler.total_pages = 3
    /\ handler.current_page = 0
    /\ handler.page_times = {0, 1}
    /\ sessions[1].pages_read = Some(2)

\* C24: the row written at close has start_page = the page shown when the
\* session opened (the current_page of the Document row, which the store
\* holds unchanged from open to close) and end_page = the page shown at
\* close.
C24_StartAndEndPage ==
    [][C23_Closes =>
          LET row == sessions'[Len(sessions')]
          IN  /\ row.end_page = Some(handler.current_page + 1)
              /\ row.start_page =
                     documents[Val(handler.document_id)].current_page]_vars

-----------------------------------------------------------------------------
(* Further properties of the analytics aggregator (SpecAnalytics) *)

\* The days of a window of `days` days that are among its 7 most recent, and
\* those among its 8th to 14th most recent.
C25_RecentDays(days) == IF days < 7 THEN days ELSE 7
C25_PrecedingDays(days) ==
    IF days <= 7 THEN 0 ELSE IF days < 14 THEN days - 7 ELSE 7

\* C25: for every days >= 1, recent_7day_avg is the mean of the daily
\* reading time over the (at most 7) most recent days of the window,
\* previous_7day_avg the mean over the days of the window before them, and
\* a window with no such earlier days is not reported as 'improving'.
C25_WindowMeans ==
    (TrendsReturned /\ result.days >= 1) =>
        LET r == result.outcome.value
            n == C25_RecentDays(result.days)
            m == C25_PrecedingDays(result.days)
            recent == C16_ReadingTime(now - n + 1, now)
            previous == C16_ReadingTime(now - n - m + 1, now - n)
        IN  /\ r.recent_7day_avg \in RoundTo(Rat(recent, 10 * n), 10)
            /\ m > 0 => r.previous_7day_avg \in RoundTo(Rat(previous, 10 * m), 10)
            /\ m = 0 => r.trend_direction # "improving"

\* The mode a recommendation text advises.
C26_Advised(recommendation) ==
    IF recommendation = "Try more Pomodoro sessions for better focus and speed"
    THEN "Pomodoro"
    ELSE IF recommendation =
            "Sprint sessions work well for you - consider more quick reading bursts"
    THEN "Sprint"
    ELSE "Regular"

\* C26: when all three modes have sessions, ties on average speed included,
\* the mode the recommendation advises is most_effective_mode.
C26_RecommendationAgrees ==
    (result.op = "timer_mode_effectiveness" /\ ~result.outcome.value.empty) =>
        C26_Advised(result.outcome.value.recommendation)
            = result.outcome.value.most_effective_mode

-----------------------------------------------------------------------------
(* The timer: Pomodoro, Sprint and Custom countdowns (TimerManager) *)

\* _start_session: the countdown starts from total_duration.
TimerStartSession(t) ==
    [timer |-> [t EXCEPT !.remaining_time = t.total_duration,
                         !.state = "running",
                         !.is_break_time = FALSE,
                         !.active = TRUE,
                         !.ticks = 0],
     emitted |-> << <<"timer_started", t.current_mode>>,
                    <<"time_updated", t.total_duration>> >>]

\* Mutant of Busy: a paused timer accepts a new session.
Busy_running(t) == t.state \notin {"stopped", "paused"}

\* The early return of start_pomodoro, start_sprint and start_custom.
Busy(t) == t.state # "stopped"

\* start_pomodoro / start_sprint / start_custom: timer, return value and
\* signals.
StartOutcome(t, mode, total_duration) ==
    IF Busy(t)
    THEN [timer |-> t, ret |-> FALSE, emitted |-> <<>>]
    ELSE LET started == TimerStartSession([t EXCEPT !.current_mode = mode,
                                                    !.total_duration = total_duration])
         IN  [timer |-> started.timer, ret |-> TRUE, emitted |-> started.emitted]

\* Mutant of PauseOutcome: a break can be paused too.
PauseOutcome_break(t) ==
    IF t.state \in {"running", "break"}
    THEN [timer |-> [t EXCEPT !.active = FALSE, !.state = "paused"],
          emitted |-> << <<"timer_paused">> >>]
    ELSE [timer |-> t, emitted |-> <<>>]

\* pause
PauseOutcome(t) ==
    IF t.state = "running"
    THEN [timer |-> [t EXCEPT !.active = FALSE, !.state = "paused"],
          emitted |-> << <<"timer_paused">> >>]
    ELSE [timer |-> t, emitted |-> <<>>]

\* resume
ResumeOutcome(t) ==
    IF t.state = "paused"
    THEN [timer |-> [t EXCEPT !.active = TRUE, !.state = "running"],
          emitted |-> << <<"timer_resumed">> >>]
    ELSE [timer |-> t, emitted |-> <<>>]

\* stop
StopOutcome(t) ==
    [timer |-> [t EXCEPT !.active = FALSE, !.state = "stopped",
                         !.is_break_time = FALSE, !.remaining_time = 0,
                         !.total_duration = 0, !.ticks = 0],
     emitted |-> << <<"timer_stopped">> >>]

\* Mutant of LongBreakDue: every break is a short one.
LongBreakDue_never(session_count) == FALSE

\* if self.session_count % 4 == 0
LongBreakDue(session_count) == session_count % 4 = 0

\* _handle_timer_completion
HandleTimerCompletion(t) ==
    IF ~t.is_break_time /\ t.current_mode = "pomodoro"
    THEN LET session_count == t.session_count + 1
             duration == IF LongBreakDue(session_count)
                         THEN long_break_duration ELSE break_duration
         IN  [timer |-> [t EXCEPT !.session_count = session_count,
                                  !.is_break_time = TRUE,
                                  !.remaining_time = duration,
                                  !.total_duration = duration,
                                  !.state = "break",
                                  !.active = TRUE,
                                  !.ticks = 0],
              emitted |-> << <<"break_started", duration>>,
                             <<"time_updated", duration>> >>]
    ELSE IF t.is_break_time
    THEN [timer |-> [t EXCEPT !.state = "stopped", !.is_break_time = FALSE,
                              !.remaining_time = 0, !.total_duration = 0,
                              !.ticks = 0],
          emitted |-> << <<"break_finished">> >>]
    ELSE [timer |-> [t EXCEPT !.state = "stopped", !.remaining_time = 0,
                              !.total_duration = 0, !.ticks = 0],
          emitted |-> << <<"timer_finished", t.current_mode>> >>]

\* Mutant of TimeLeft: the countdown completes on the tick that reaches 0.
TimeLeft_early(t) == t.remaining_time > 1

\* if self.remaining_time > 0
TimeLeft(t) == t.remaining_time > 0

\* _on_timer_tick
OnTimerTickOutcome(t) ==
    IF TimeLeft(t)
    THEN [timer |-> [t EXCEPT !.remaining_time = @ - 1, !.ticks = @ + 1],
          emitted |-> << <<"time_updated", t.remaining_time - 1>> >>]
    ELSE HandleTimerCompletion([t EXCEPT !.active = FALSE])

\* Pomodoro sessions completed in a behaviour.
MaxSessionCount == 4

\* duration_minutes of start_custom.
CustomMinutes == {0, 1, 2}

\* start_pomodoro()
StartPomodoro ==
    /\ timer.session_count < MaxSessionCount
    /\ LET o == StartOutcome(timer, "pomodoro", work_duration)
       IN  /\ timer' = o.timer
           /\ result' = [op |-> "start_pomodoro", ret |-> o.ret,
                         emitted |-> o.emitted]
    /\ UNCHANGED <<documents, sessions, now, inserted, handler>>

\* start_sprint()
StartSprint ==
    /\ LET o == StartOutcome(timer, "sprint", sprint_duration)
       IN  /\ timer' = o.timer
           /\ result' = [op |-> "start_sprint", ret |-> o.ret,
                         emitted |-> o.emitted]
    /\ UNCHANGED <<documents, sessions, now, inserted, handler>>

\* start_custom(duration_minutes)
StartCustom(duration_minutes) ==
    /\ LET o == StartOutcome(timer, "custom", duration_minutes * 60)
       IN  /\ timer' = o.timer
           /\ result' = [op |-> "start_custom", ret |-> o.ret,
                         emitted |-> o.emitted]
    /\ UNCHANGED <<documents, sessions, now, inserted, handler>>

\* pause()
Pause ==
    /\ timer' = PauseOutcome(timer).timer
    /\ result' = [op |-> "pause", emitted |-> PauseOutcome(timer).emitted]
    /\ UNCHANGED <<documents, sessions, now, inserted, handler>>

\* resume()
Resume ==
    /\ timer' = ResumeOutcome(timer).timer
    /\ result' = [op |-> "resume", emitted |-> ResumeOutcome(timer).emitted]
    /\ UNCHANGED <<documents, sessions, now, inserted, handler>>

\* stop()
Stop ==
    /\ timer' = StopOutcome(timer).timer
    /\ result' = [op |-> "stop", emitted |-> StopOutcome(timer).emitted]
    /\ UNCHANGED <<documents, sessions, now, inserted, handler>>

\* The QTimer's timeout, one second after the last one: _on_timer_tick.
OnTimerTick ==
    /\ timer.active
    /\ timer' = OnTimerTickOutcome(timer).timer
    /\ result' = [op |-> "tick", emitted |-> OnTimerTickOutcome(timer).emitted]
    /\ UNCHANGED <<documents, sessions, now, inserted, handler>>

InitTimer ==
    /\ documents = <<>>
    /\ sessions = <<>>
    /\ now = DailyWindowDays
    /\ inserted = 0
    /\ result = NoResult
    /\ handler = NewHandler
    /\ timer = NewTimer

NextTimer ==
    \/ StartPomodoro
    \/ StartSprint
    \/ \E duration_minutes \in CustomMinutes : StartCustom(duration_minutes)
    \/ Pause
    \/ Resume
    \/ Stop
    \/ OnTimerTick

\* The timer with its timeouts arriving: a timeout that stays due is
\* handled.
SpecTimer == InitTimer /\ [][NextTimer]_vars /\ WF_vars(OnTimerTick)

-----------------------------------------------------------------------------
(* Properties of the timer (SpecTimer) *)

StartCalls == {"start_pomodoro", "start_sprint", "start_custom"}

\* The signal is among those the latest call or timeout emitted.
Emits(r, signal) == \E i \in DOMAIN r.emitted : r.emitted[i][1] = signal

\* The fields of the timer apart from its state.
Countdown(t) ==
    <<t.current_mode, t.remaining_time, t.total_duration, t.session_count,
      t.is_break_time>>

\* C27: a start_* call on a timer that is not STOPPED returns False and
\* leaves current_mode, state, remaining_time, total_duration and
\* session_count unchanged; on a STOPPED timer it returns True and the timer
\* is RUNNING with remaining_time = total_duration.
C27_OneCountdown ==
    [][result'.op \in StartCalls =>
          IF timer.state # "stopped"
          THEN /\ result'.ret = FALSE
               /\ timer'.state = timer.state
               /\ Countdown(timer') = Countdown(timer)
          ELSE /\ result'.ret = TRUE
               /\ timer'.state = "running"
               /\ timer'.remaining_time = timer'.total_duration]_vars

\* start_sprint has been refused during a Pomodoro break.
C27_Witness ==
    /\ result.op = "start_sprint"
    /\ result.ret = FALSE
    /\ timer.state = "break"
    /\ timer.current_mode = "pomodoro"

\* C28: 0 <= remaining_time <= total_duration; a STOPPED timer has
\* remaining_time = 0 and total_duration = 0; is_break_time holds exactly in
\* state BREAK; pause changes RUNNING to PAUSED and resume PAUSED to
\* RUNNING, and neither changes anything else, pause during BREAK included.
C28_TimerInvariant ==
    /\ [](/\ 0 <= timer.remaining_time
          /\ timer.remaining_time <= timer.total_duration
          /\ timer.state = "stopped" =>
                 timer.remaining_time = 0 /\ timer.total_duration = 0
          /\ timer.is_break_time <=> timer.state = "break")
    /\ [][/\ result'.op = "pause" =>
               /\ Countdown(timer') = Countdown(timer)
               /\ timer'.state =
                      IF timer.state = "running" THEN "paused" ELSE timer.state
          /\ result'.op = "resume" =>
               /\ Countdown(timer') = Countdown(timer)
               /\ timer'.state =
                      IF timer.state = "paused" THEN "running" ELSE timer.state
         ]_vars

\* pause has been ignored during a break that has run for a while.
C28_Witness ==
    /\ result.op = "pause"
    /\ timer.state = "break"
    /\ timer.is_break_time
    /\ 0 < timer.remaining_time
    /\ timer.remaining_time < timer.total_duration

\* The timeout finds the countdown at 0: the countdown completes.
C29_Completes == result'.op = "tick" /\ timer.remaining_time = 0

\* C29: a completed Pomodoro work countdown adds 1 to session_count and
\* enters BREAK, for 15 minutes when the new count is a multiple of 4 and
\* for 5 minutes otherwise; a completed break ends in STOPPED with
\* break_finished; timer_finished is emitted only by a completed Sprint or
\* Custom countdown; stop() changes no count and emits neither signal; and
\* nothing else changes session_count.
C29_PomodoroSequence ==
    [][/\ (C29_Completes /\ timer.state = "running"
             /\ timer.current_mode = "pomodoro") =>
            /\ timer'.session_count = timer.session_count + 1
            /\ timer'.state = "break"
            /\ timer'.total_duration =
                   IF timer'.session_count % 4 = 0 THEN 15 * 60 ELSE 5 * 60
            /\ timer'.remaining_time = timer'.total_duration
            /\ Emits(result', "break_started")
       /\ (C29_Completes /\ timer.state = "break") =>
            /\ timer'.state = "stopped"
            /\ Emits(result', "break_finished")
       /\ Emits(result', "timer_finished") =>
            /\ C29_Completes
            /\ timer.state = "running"
            /\ timer.current_mode \in {"sprint", "custom"}
            /\ timer'.state = "stopped"
       /\ (C29_Completes /\ timer.state = "running"
             /\ timer.current_mode \in {"sprint", "custom"}) =>
            Emits(result', "timer_finished")
       /\ result'.op = "stop" =>
            /\ timer'.session_count = timer.session_count
            /\ ~Emits(result', "timer_finished")
            /\ ~Emits(result', "break_finished")
       /\ timer'.session_count # timer.session_count =>
            (C29_Completes /\ timer.current_mode = "pomodoro")]_vars

\* The fourth Pomodoro has completed into its long break.
C29_Witness ==
    /\ result.op = "tick"
    /\ Emits(result, "break_started")
    /\ timer.state = "break"
    /\ timer.session_count = 4
    /\ timer.total_duration = long_break_duration

\* C30: a timer that is RUNNING or in BREAK comes to STOPPED unless pause or
\* stop is called; a countdown of N seconds (total_duration = N) completes
\* on its (N + 1)-th timeout and on no earlier one; and a PAUSED timer
\* leaves PAUSED only by resume or stop.
C30_ReturnsToStopped ==
    /\ (timer.state \in {"running", "break"})
           ~> (timer.state = "stopped" \/ result.op \in {"pause", "stop"})
    /\ [][/\ result'.op = "tick" =>
               (timer'.state # timer.state <=> timer.ticks = timer.total_duration)
          /\ (timer.state = "paused" /\ timer'.state # "paused") =>
               result'.op \in {"resume", "stop"}]_vars

\* A Sprint countdown has completed by itself.
C30_Witness ==
    /\ result.op = "tick"
    /\ Emits(result, "timer_finished")
    /\ timer.state = "stopped"
    /\ timer.current_mode = "sprint"

====
